---- MODULE Spec2Model ----
(***************************************************************************)
(* State-machine model of the m3u8-dl segment ingestion loop               *)
(* (TsDownloader::run, src/src/downloader.rs) together with the rotating   *)
(* output file it drives (OutputFile, src/src/output.rs) and the shutdown  *)
(* listener of src/src/main.rs.                                            *)
(*                                                                         *)
(* Every await point of run is a control location (pc); the synchronous    *)
(* code between two await points is one action.  The environment (HTTP     *)
(* responses, playlist contents, payload sizes, I/O errors, the Ctrl+C     *)
(* signal, the passage of time) is chosen nondeterministically from small  *)
(* sets.                                                                   *)
(***************************************************************************)
EXTENDS Integers, Sequences, FiniteSets, TLC

(***************************************************************************)
(* Bounds of the model.                                                    *)
(***************************************************************************)
\* longest media playlist returned by one poll
MaxSegs == 2
\* number of playlist polls explored in one run
MaxPolls == 3
\* last instant of the model clock (seconds)
MaxTime == 2
\* largest segment payload, in bytes
MaxPayload == 1
\* largest value of --max-failures explored (0 = unbounded)
MaxFailuresCfg == 2
\* largest total_timeout given to fetch_with_retry (time units)
MaxTimeout == 3
\* largest max_retries given to fetch_with_retry
MaxRetries == 2
\* largest retry delay given to fetch_with_retry (time units)
MaxRetryDelay == 2
\* largest index of a file found in the output directory at start
MaxPre == 2
\* number of OutputFile::write calls explored on one OutputFile
MaxWrites == 1
\* number of OutputFile::finalize calls explored on one OutputFile
MaxFinalize == 2
\* last minute of the wall clock (Local::now)
MaxMinute == 1
\* largest number of hook tasks pending when the loop has stopped
MaxHooks == 2
\* largest number of variants in a master playlist
MaxVariants == 3

(***************************************************************************)
(* Constants of the program.                                               *)
(***************************************************************************)
\* seconds waited for one pending hook task (Duration::from_secs(60))
HookWaitSecs == 60

(***************************************************************************)
(* Configuration (DownloadConfig) that is the same in every run explored.  *)
(***************************************************************************)
\* --segment-secs: rotate the file after this many seconds
segment_secs == 1

(***************************************************************************)
(* Raw segment URIs as they appear in the playlist.  "seg1.ts" and         *)
(* "./seg1.ts" are different strings naming the same resource; "http://["  *)
(* cannot be joined to the playlist URL (invalid IPv6 host).               *)
(***************************************************************************)
URIs == {"seg1.ts", "./seg1.ts", "http://["}

JoinError == "JoinError"

\* Url::join(media_url, uri) for media_url = http://h/live/index.m3u8
join(uri) ==
    CASE uri = "seg1.ts"   -> "http://h/live/seg1.ts"
      [] uri = "./seg1.ts" -> "http://h/live/seg1.ts"
      [] OTHER             -> JoinError

SeqsUpTo(S, n) == UNION {[1..k -> S] : k \in 0..n}

\* the segment lists a parsed media playlist may hold
Playlists == SeqsUpTo(URIs, MaxSegs)

\* payload sizes a successful fetch may return (an empty body included)
PayloadSizes == 0..MaxPayload

VARIABLES
    \* ---- configuration chosen at construction
    max_failures,        \* DownloadConfig.max_failures
    on_segment,          \* DownloadConfig.on_segment.is_some()
    \* ---- shared with the signal listener
    shutdown,            \* Arc<AtomicBool>
    \* ---- TsDownloader
    seen_segments,       \* HashSet<String>
    consecutive_failures,
    \* ---- OutputFile
    segment_index,       \* rotation index of the open file
    segment_start,       \* Instant at which the current window started
    total_bytes_written, \* lifetime byte counter
    files,               \* files[i+1] = payloads appended to the file of index i
    \* ---- locals of run
    pc,                  \* control location
    finalized,           \* the "already finalized" flag
    pending_commands,    \* paths handed to run_segment_command_async, in order
    segments,            \* iterator of the for loop: the segments of
                         \* media_playlist not yet passed, the current first
    end_list,            \* media_playlist.end_list
    result,              \* "running", "Ok" or "Err": what run returned
    \* ---- environment
    now,                 \* the clock
    \* ---- history (not read by the program)
    fetchLog,            \* segment fetches ended so far: [uri, ok, size]
    polled,              \* raw URIs of the parsed playlists, in first-seen order
    pollLog,             \* outcome of every poll ended so far
    diagnostic,          \* the error of the last poll, as printed ("none"
                         \* after a poll that succeeded)
    finalizeCalls,       \* number of calls of OutputFile::finalize
    stopCause,           \* which branch left the loop
    in_flight,           \* the HTTP requests started and not yet awaited
    \* ---- fetch_with_retry (src/src/http_client.rs), one call
    total_timeout,       \* argument: the budget of the whole call
    max_retries,         \* argument
    retry_delay,         \* argument retry_delay_ms, as a duration
    f_pc,                \* control location of the call
    attempt,             \* the loop variable of `for attempt in 0..=max_retries`
    elapsed,             \* start.elapsed()
    remaining,           \* the timeout given to the attempt in flight
    attempt_time,        \* how long the attempt in flight has run
    sleep_left,          \* what is left of the sleep in progress
    last_err,            \* Option of the last error: "None" or the error
    fetch_result,        \* what the call returned: [kind, val]
    attemptLog,          \* history: [kind, val, no, from, at] of every attempt
    \* ---- OutputFile (src/src/output.rs) in a directory that is not empty
    wall,                \* Local::now(), in minutes
    start_time,          \* OutputFile.start_time
    dir,                 \* the output directory: path -> [by, data]
    file,                \* OutputFile.file: the path the handle was opened on
    o_state,             \* "unopened", "open", or "failed" after an Err
    createLog,           \* history: [path, existed, at] of every File::create
    returned,            \* history: [call, path] of every path returned
    flushLog,            \* history: the method of every File::flush call
    writes,              \* history: number of write calls
    \* ---- the wait for the hook tasks at the end of run
    handles,             \* the tasks behind pending_commands: their state
    drain_pc,            \* control location of the wait
    handle_i,            \* position of `for handle in &mut pending_commands`
    waited,              \* seconds spent in the timeout on the handle
    warnings,            \* the handles given up with a warning
    drain_result,        \* what run returns after the wait
    waitLog,             \* history: [handle, expired] of every timeout awaited
    \* ---- select_best_variant (src/src/playlist.rs), one call
    master,              \* argument: MasterPlaylist.variants
    v_pc,                \* "idle", "call" or "done"
    variant_url,         \* the Option<Url> returned: <<>> or <<url>>
    \* ---- the choice of the handler in main (src/src/main.rs)
    ffmpeg,              \* Args.ffmpeg
    direct,              \* Args.direct
    initial_media,       \* what the media URL answers: [kind, segments]
    d_pc,                \* "idle", "main", "detect_format", "match",
                         \* "handled" or "failed"
    format,              \* the StreamFormat detected, "none" before
    handler,             \* the handler main calls, "none" before
    \* ---- run_exit_command (src/src/commands.rs), one call; a string is
    \* the sequence of its characters
    cmd_template,        \* the template, as the pieces it was written in
    duration_secs,       \* seconds since the start of the recording
    total_bytes,         \* the byte total handed to the hook
    output_dir,          \* Args.output
    e_pc,                \* "idle", "call" or "done"
    cmd,                 \* the command line given to sh -c
    exit_outcome,        \* what Command::status gave, "none" before
    \* ---- main around handle_ts_stream (src/src/main.rs)
    on_exit,             \* Args.on_exit.is_some()
    main_pc,             \* "idle", "handle_ts_stream", "done" or "failed"
    exit_calls,          \* the calls of run_exit_command
    \* ---- the hook tasks of run_segment_command_async
    hooks_done,          \* [handle, path] of the tasks whose command ended
    \* ---- the shutdown listener of setup_shutdown_handler (src/src/main.rs)
    started_after_shutdown  \* the fetches started with the flag already set

\* the variables of TsDownloader::run and its OutputFile
runVars == <<max_failures, on_segment, shutdown, seen_segments,
             consecutive_failures, segment_index, segment_start,
             total_bytes_written, files, pc, finalized, pending_commands,
             segments, end_list, result, now, fetchLog, polled,
             pollLog, diagnostic, finalizeCalls, stopCause, in_flight>>

\* the variables of one call of fetch_with_retry
fetchVars == <<total_timeout, max_retries, retry_delay, f_pc, attempt,
               elapsed, remaining, attempt_time, sleep_left, last_err,
               fetch_result, attemptLog>>

\* the variables of an OutputFile followed in its directory
dirVars == <<wall, start_time, dir, file, o_state, createLog, returned,
             flushLog, writes>>

\* the variables of the wait for the hook tasks
drainVars == <<handles, drain_pc, handle_i, waited, warnings, drain_result,
               waitLog>>

\* the variables of one call of select_best_variant
variantVars == <<master, v_pc, variant_url>>

\* the variables of the choice of the handler in main
formatVars == <<ffmpeg, direct, initial_media, d_pc, format, handler>>

\* the variables of one call of run_exit_command
exitVars == <<cmd_template, duration_secs, total_bytes, output_dir, e_pc,
              cmd, exit_outcome>>

\* the variables of main around the ingestion loop
mainVars == <<on_exit, main_pc, exit_calls>>

\* the variables of the hook tasks
hookVars == <<hooks_done>>

\* the variables of the shutdown listener followed between a load of the
\* flag and the fetch after it
signalVars == <<started_after_shutdown>>

\* the variables of the calls followed on their own
callVars == <<variantVars, formatVars, exitVars, mainVars, hookVars,
              signalVars>>

\* the variables the ingestion loop never touches
auxVars == <<fetchVars, dirVars, drainVars, callVars>>

\* what a call of fetch_with_retry leaves alone
notFetchVars == <<runVars, dirVars, drainVars, callVars>>

\* the fields of the ingestion loop other than those of its OutputFile
loopVars == <<max_failures, on_segment, shutdown, seen_segments,
              consecutive_failures, files, pc, finalized, pending_commands,
              segments, end_list, result, fetchLog, polled, pollLog,
              diagnostic, stopCause, in_flight>>

\* what the methods of an OutputFile leave alone
notFileVars == <<loopVars, fetchVars, drainVars, callVars>>

\* what the wait for the hook tasks leaves alone
notDrainVars == <<runVars, fetchVars, dirVars, callVars>>

\* the ingestion loop and what it calls
ingestVars == <<runVars, fetchVars, dirVars, drainVars>>

vars == <<runVars, auxVars>>

cfgVars == <<max_failures, on_segment>>
outVars == <<segment_index, segment_start, total_bytes_written, files>>
plVars == <<segments, end_list>>

(***************************************************************************)
(* Helpers on sequences.                                                   *)
(***************************************************************************)
Range(s) == LET t == s IN {t[i] : i \in 1..Len(t)}

RECURSIVE SumSizes(_)
SumSizes(s) == IF s = <<>> THEN 0 ELSE Head(s).size + SumSizes(Tail(s))

RECURSIVE AppendUnseen(_, _)
\* order extended by the elements of s it does not hold yet, in the order of s
AppendUnseen(order, s) ==
    IF s = <<>> THEN order
    ELSE AppendUnseen(IF Head(s) \in Range(order) THEN order
                      ELSE Append(order, Head(s)), Tail(s))

IsPrefix(s, t) ==
    LET a == s b == t IN Len(a) <= Len(b) /\ SubSeq(b, 1, Len(a)) = a

NoDuplicates(s) ==
    LET t == s IN \A i, j \in 1..Len(t) : t[i] = t[j] => i = j

(***************************************************************************)
(* OutputFile (src/src/output.rs).                                         *)
(***************************************************************************)
\* OutputFile::current_path: the path is a function of the fixed start
\* timestamp and the index, so the index stands for the path.
current_path == segment_index

\* faulty variant: the counter misses the payload
add_bytes_dropped(total, len) == total

\* OutputFile::write, the counter update
add_bytes(total, len) == total + len

\* faulty variant: the payload does not reach the open file
append_to_file_dropped(uri, len) == files

\* faulty variant: the write replaces what the open file holds
append_to_file_overwriting(uri, len) ==
    [files EXCEPT ![Len(files)] = <<[uri |-> uri, size |-> len]>>]

\* OutputFile::write, the append to the open file
append_to_file(uri, len) ==
    [files EXCEPT ![Len(files)] = Append(@, [uri |-> uri, size |-> len])]

\* faulty variant: the rotation does not look at the clock
rotation_due_always == TRUE

\* OutputFile::maybe_rotate, the rotation test
rotation_due == now - segment_start >= segment_secs

\* faulty variant: an index is left out at every rotation
next_index_skipping(index) == index + 2

\* OutputFile::maybe_rotate, the index of the next file
next_index(index) == index + 1

\* OutputFile::finalize: File::flush of std::fs::File writes nothing and
\* returns Ok(()), so finalize changes no field and cannot fail.
finalize == finalizeCalls' = finalizeCalls + 1

\* faulty variant: the hook is started without looking at the template
dispatch_always(path) == pending_commands' = Append(pending_commands, path)

\* run_segment_command_async behind `if let Some(ref cmd) = on_segment`
dispatch(path) ==
    pending_commands' = IF on_segment THEN Append(pending_commands, path)
                        ELSE pending_commands

(***************************************************************************)
(* TsDownloader::run (src/src/downloader.rs).                              *)
(***************************************************************************)
\* the URL of the media playlist (config.media_url)
MediaUrl == "media.m3u8"

\* the request run is about to make: its URL and its number in the run
request(url) == [url |-> url, no |-> Len(pollLog) + Len(fetchLog)]

\* `fetch_with_retry(client, url, ..)`: the request is on its way
request_started(url) == in_flight' = in_flight \cup {request(url)}

\* faulty variant: the loop goes on while the request is still running
request_not_awaited(url) == in_flight' = in_flight

\* `.await` on fetch_with_retry: the loop goes on when the request is over
request_awaited(url) == in_flight' = in_flight \ {request(url)}

\* faulty variant: the dedup test never matches
already_seen_never(uri) == FALSE

\* faulty variant: the dedup test matches on the resolved URL
already_seen_by_url(uri) == \E seen \in seen_segments : join(seen) = join(uri)

\* the dedup test of the for loop
already_seen(uri) == uri \in seen_segments

\* faulty variant: the URI is not recorded before its fetch
mark_seen_forgotten(uri) == seen_segments

\* seen_segments.insert(segment.uri.clone()), before the fetch
mark_seen(uri) == seen_segments \cup {uri}

\* faulty variant: one failure more than the budget is tolerated
budget_exhausted_late(failures) ==
    max_failures > 0 /\ failures > max_failures

\* faulty variant: a budget of 0 is taken as a bound
budget_exhausted_zero(failures) == failures >= max_failures

\* the give-up test after a failed poll, on the incremented counter
budget_exhausted(failures) == max_failures > 0 /\ failures >= max_failures

\* faulty variant: the block after the loop finalizes unconditionally
needs_finalize_always == TRUE

\* the guard of the finalize block after the loop
needs_finalize == ~finalized

\* faulty variant: giving up is reported as an error
run_result_err_on_give_up == IF stopCause = "failures" THEN "Err" ELSE "Ok"

\* what run returns when the loop was left by a break
run_result == "Ok"

\* no call of fetch_with_retry is followed step by step
FetchIdle ==
    /\ total_timeout = 0
    /\ max_retries = 0
    /\ retry_delay = 0
    /\ f_pc = "idle"
    /\ attempt = 0
    /\ elapsed = 0
    /\ remaining = 0
    /\ attempt_time = 0
    /\ sleep_left = 0
    /\ last_err = "None"
    /\ fetch_result = [kind |-> "pending", val |-> "None"]
    /\ attemptLog = <<>>

\* TsDownloader::new and the first lines of run: an empty seen set, a zero
\* counter, and the file OutputFile::new created (here in a directory that
\* holds no file of the start minute, so its index is 0)
RunInit ==
    /\ max_failures \in 0..MaxFailuresCfg
    /\ on_segment \in BOOLEAN
    /\ shutdown = FALSE
    /\ seen_segments = {}
    /\ consecutive_failures = 0
    /\ segment_index = 0
    /\ segment_start = 0
    /\ total_bytes_written = 0
    /\ files = << <<>> >>
    /\ pc = "top"
    /\ finalized = FALSE
    /\ pending_commands = <<>>
    /\ segments = <<>>
    /\ end_list = FALSE
    /\ result = "running"
    /\ now = 0
    /\ fetchLog = <<>>
    /\ polled = <<>>
    /\ pollLog = <<>>
    /\ diagnostic = "none"
    /\ finalizeCalls = 0
    /\ stopCause = "none"
    /\ in_flight = {}

\* no OutputFile is followed in a directory of its own
DirIdle ==
    /\ wall = 0
    /\ start_time = 0
    /\ dir = <<>>
    /\ file = <<>>
    /\ o_state = "unopened"
    /\ createLog = <<>>
    /\ returned = <<>>
    /\ flushLog = <<>>
    /\ writes = 0

\* the wait for the hook tasks is not followed step by step
DrainIdle ==
    /\ handles = <<>>
    /\ drain_pc = "idle"
    /\ handle_i = 0
    /\ waited = 0
    /\ warnings = <<>>
    /\ drain_result = "pending"
    /\ waitLog = <<>>

\* no call of select_best_variant is followed
VariantIdle ==
    /\ master = <<>>
    /\ v_pc = "idle"
    /\ variant_url = <<>>

\* main is not followed
FormatIdle ==
    /\ ffmpeg = FALSE
    /\ direct = FALSE
    /\ initial_media = [kind |-> "none", segments |-> <<>>]
    /\ d_pc = "idle"
    /\ format = "none"
    /\ handler = "none"

\* no call of run_exit_command is followed
ExitIdle ==
    /\ cmd_template = <<>>
    /\ duration_secs = 0
    /\ total_bytes = 0
    /\ output_dir = <<>>
    /\ e_pc = "idle"
    /\ cmd = <<>>
    /\ exit_outcome = "none"

\* main is not followed around the ingestion loop
MainIdle ==
    /\ on_exit = FALSE
    /\ main_pc = "idle"
    /\ exit_calls = 0

\* no hook task has run its command
HooksIdle == hooks_done = {}

\* no fetch was started with the flag set
SignalIdle == started_after_shutdown = 0

\* no call is followed on its own
CallsIdle ==
    /\ VariantIdle /\ FormatIdle /\ ExitIdle /\ MainIdle /\ HooksIdle
    /\ SignalIdle

\* everything but the ingestion loop stands still
AuxIdle == FetchIdle /\ DirIdle /\ DrainIdle /\ CallsIdle

Init == RunInit /\ AuxIdle

\* faulty variant: Ctrl+C also aborts the request run is waiting for
SetShutdownCancelling ==
    /\ ~shutdown
    /\ pc # "returned"
    /\ shutdown' = TRUE
    /\ in_flight' = {}
    /\ pc' = IF pc \in {"playlist_fetch", "segment_fetch"} THEN "top" ELSE pc
    /\ segments' = IF pc = "segment_fetch" THEN <<>> ELSE segments
    /\ UNCHANGED <<cfgVars, seen_segments, consecutive_failures, outVars,
                   finalized, pending_commands, end_list, result, now,
                   fetchLog, polled, pollLog, finalizeCalls, stopCause,
                   diagnostic, auxVars>>

\* main.rs setup_shutdown_handler: Ctrl+C stores true in the flag, at any
\* moment of the run, on another task of the multi-thread runtime.
SetShutdown ==
    /\ ~shutdown
    /\ pc # "returned"
    /\ shutdown' = TRUE
    /\ UNCHANGED <<cfgVars, seen_segments, consecutive_failures, outVars, pc,
                   finalized, pending_commands, plVars, result, now, fetchLog,
                   polled, pollLog, finalizeCalls, stopCause,
                   diagnostic, in_flight,
                   auxVars>>

\* time passes while run is suspended in a fetch or in the sleep between two
\* polls (whose length, poll_interval, is thereby any number of seconds)
Tick ==
    /\ now < MaxTime
    /\ pc \in {"playlist_fetch", "segment_fetch", "sleep"}
    /\ now' = now + 1
    /\ UNCHANGED <<cfgVars, shutdown, seen_segments, consecutive_failures,
                   outVars, pc, finalized, pending_commands, plVars, result,
                   fetchLog, polled, pollLog, finalizeCalls, stopCause,
                   diagnostic, in_flight,
                   auxVars>>

\* top of the loop, flag set: finalize, dispatch, break
ShutdownAtTop ==
    /\ pc = "top"
    /\ shutdown
    /\ finalize
    /\ finalized' = TRUE
    /\ dispatch(current_path)
    /\ stopCause' = "shutdown"
    /\ pc' = "after_loop"
    /\ UNCHANGED <<cfgVars, shutdown, seen_segments, consecutive_failures,
                   outVars, plVars, result, now, fetchLog, polled, pollLog,
                   diagnostic, in_flight,
                   auxVars>>

\* top of the loop, flag clear: the playlist fetch starts
StartPoll ==
    /\ pc = "top"
    /\ ~shutdown
    /\ Len(pollLog) < MaxPolls
    /\ pc' = "playlist_fetch"
    /\ request_started(MediaUrl)
    /\ UNCHANGED <<cfgVars, shutdown, seen_segments, consecutive_failures,
                   outVars, finalized, pending_commands, plVars, result, now,
                   fetchLog, polled, pollLog, finalizeCalls, stopCause,
                   diagnostic, auxVars>>

\* faulty variant: a failed poll also forgets the segments seen so far
PollFailedForgetting(kind) ==
    /\ pc = "playlist_fetch"
    /\ consecutive_failures' = consecutive_failures + 1
    /\ seen_segments' = {}
    /\ pollLog' = Append(pollLog, "failed")
    /\ diagnostic' = kind
    /\ IF budget_exhausted(consecutive_failures')
       THEN pc' = "after_loop" /\ stopCause' = "failures"
       ELSE pc' = "sleep" /\ UNCHANGED stopCause
    /\ request_awaited(MediaUrl)
    /\ UNCHANGED <<cfgVars, shutdown, outVars, finalized,
                   pending_commands, plVars, result, now, fetchLog, polled,
                   finalizeCalls, auxVars>>

\* a failed poll: fetch_with_retry returned Err, or the body is not a media
\* playlist.  Both arms run the same code.
PollFailed(kind) ==
    /\ pc = "playlist_fetch"
    /\ consecutive_failures' = consecutive_failures + 1
    /\ pollLog' = Append(pollLog, "failed")
    /\ diagnostic' = kind
    /\ IF budget_exhausted(consecutive_failures')
       THEN pc' = "after_loop" /\ stopCause' = "failures"
       ELSE pc' = "sleep" /\ UNCHANGED stopCause
    /\ request_awaited(MediaUrl)
    /\ UNCHANGED <<cfgVars, shutdown, seen_segments, outVars, finalized,
                   pending_commands, plVars, result, now, fetchLog, polled,
                   finalizeCalls, auxVars>>

PlaylistFetchError == PollFailed("fetch_error")

PlaylistParseError == PollFailed("parse_error")

\* a successful fetch and parse: reset the counter, enter the for loop
PlaylistParsed ==
    /\ pc = "playlist_fetch"
    /\ \E pl \in Playlists, el \in BOOLEAN :
          /\ segments' = pl
          /\ end_list' = el
          /\ polled' = AppendUnseen(polled, pl)
    /\ consecutive_failures' = 0
    /\ pollLog' = Append(pollLog, "ok")
    /\ diagnostic' = "none"
    /\ pc' = "segments"
    /\ request_awaited(MediaUrl)
    /\ UNCHANGED <<cfgVars, shutdown, seen_segments, outVars, finalized,
                   pending_commands, result, now, fetchLog, finalizeCalls,
                   stopCause, auxVars>>

\* faulty variant: the for loop does not load the flag between two segments
for_loop_ends_unchecked == segments = <<>>

\* the for loop is left: no segment remains, or the flag is set (break)
for_loop_ends == segments = <<>> \/ shutdown

\* for loop: the segment's URI is in seen_segments: continue
SkipSeen ==
    /\ pc = "segments"
    /\ ~for_loop_ends
    /\ already_seen(Head(segments))
    /\ segments' = Tail(segments)
    /\ UNCHANGED <<cfgVars, shutdown, seen_segments, consecutive_failures,
                   outVars, pc, finalized, pending_commands, end_list, result,
                   now, fetchLog, polled, pollLog, finalizeCalls, stopCause,
                   diagnostic, in_flight,
                   auxVars>>

\* for loop: a new URI: insert it, resolve it, start its fetch; a URI that
\* does not resolve makes run return the error (`?`)
StartSegment ==
    /\ pc = "segments"
    /\ ~for_loop_ends
    /\ ~already_seen(Head(segments))
    /\ seen_segments' = mark_seen(Head(segments))
    /\ IF join(Head(segments)) = JoinError
       THEN /\ pc' = "returned"
            /\ result' = "Err"
            /\ stopCause' = "join_error"
            /\ segments' = <<>>
            /\ UNCHANGED in_flight
       ELSE /\ pc' = "segment_fetch"
            /\ request_started(join(Head(segments)))
            /\ UNCHANGED <<result, stopCause, segments>>
    /\ UNCHANGED <<cfgVars, shutdown, consecutive_failures, outVars,
                   finalized, pending_commands, end_list, now, fetchLog,
                   polled, pollLog, finalizeCalls,
                   diagnostic, auxVars>>

\* faulty variant: a failed segment fetch is propagated like an I/O error
SegmentFetchErrorFatal ==
    /\ pc = "segment_fetch"
    /\ fetchLog' = Append(fetchLog,
                     [uri |-> Head(segments), ok |-> FALSE, size |-> 0])
    /\ pc' = "returned"
    /\ result' = "Err"
    /\ segments' = <<>>
    /\ request_awaited(join(Head(segments)))
    /\ UNCHANGED <<cfgVars, shutdown, seen_segments, consecutive_failures,
                   outVars, finalized, pending_commands, end_list, now,
                   polled, pollLog, finalizeCalls, stopCause, diagnostic, auxVars>>

\* the segment fetch failed: log, next segment
SegmentFetchError ==
    /\ pc = "segment_fetch"
    /\ fetchLog' = Append(fetchLog,
                     [uri |-> Head(segments), ok |-> FALSE, size |-> 0])
    /\ segments' = Tail(segments)
    /\ pc' = "segments"
    /\ request_awaited(join(Head(segments)))
    /\ UNCHANGED <<cfgVars, shutdown, seen_segments, consecutive_failures,
                   outVars, finalized, pending_commands, end_list, result,
                   now, polled, pollLog, finalizeCalls, stopCause,
                   diagnostic, auxVars>>

\* the segment fetch succeeded, write_all fails: run returns the error
SegmentWriteError ==
    /\ pc = "segment_fetch"
    /\ \E len \in PayloadSizes \ {0} :
          /\ fetchLog' = Append(fetchLog,
                     [uri |-> Head(segments), ok |-> TRUE, size |-> len])
          /\ \E done \in 0..(len - 1) :
                 files' = IF done = 0 THEN files
                          ELSE append_to_file(Head(segments), done)
    /\ pc' = "returned"
    /\ result' = "Err"
    /\ stopCause' = "write_error"
    /\ segments' = <<>>
    /\ request_awaited(join(Head(segments)))
    /\ UNCHANGED <<cfgVars, shutdown, seen_segments, consecutive_failures,
                   segment_index, segment_start, total_bytes_written,
                   finalized, pending_commands, end_list, now,
                   polled, pollLog, finalizeCalls,
                   diagnostic, auxVars>>

\* the segment fetch succeeded and is written, no rotation is due
SegmentWritten ==
    /\ pc = "segment_fetch"
    /\ ~rotation_due
    /\ \E len \in PayloadSizes :
          /\ fetchLog' = Append(fetchLog,
                     [uri |-> Head(segments), ok |-> TRUE, size |-> len])
          /\ total_bytes_written' = add_bytes(total_bytes_written, len)
          /\ files' = append_to_file(Head(segments), len)
    /\ segments' = Tail(segments)
    /\ pc' = "segments"
    /\ request_awaited(join(Head(segments)))
    /\ UNCHANGED <<cfgVars, shutdown, seen_segments, consecutive_failures,
                   segment_index, segment_start, finalized, pending_commands,
                   end_list, result, now, polled, pollLog, finalizeCalls,
                   stopCause,
                   diagnostic, auxVars>>

\* the segment fetch succeeded and is written, maybe_rotate rotates: the
\* completed path is dispatched
SegmentRotated ==
    /\ pc = "segment_fetch"
    /\ rotation_due
    /\ \E len \in PayloadSizes :
          /\ fetchLog' = Append(fetchLog,
                     [uri |-> Head(segments), ok |-> TRUE, size |-> len])
          /\ total_bytes_written' = add_bytes(total_bytes_written, len)
          /\ files' = Append(append_to_file(Head(segments), len), <<>>)
    /\ segment_index' = next_index(segment_index)
    /\ segment_start' = now
    /\ dispatch(current_path)
    /\ segments' = Tail(segments)
    /\ pc' = "segments"
    /\ request_awaited(join(Head(segments)))
    /\ UNCHANGED <<cfgVars, shutdown, seen_segments, consecutive_failures,
                   finalized, end_list, result, now, polled, pollLog,
                   finalizeCalls, stopCause,
                   diagnostic, auxVars>>

\* the segment fetch succeeded and is written, maybe_rotate is due and
\* File::create of the next file fails: run returns the error
SegmentRotateError ==
    /\ pc = "segment_fetch"
    /\ rotation_due
    /\ \E len \in PayloadSizes :
          /\ fetchLog' = Append(fetchLog,
                     [uri |-> Head(segments), ok |-> TRUE, size |-> len])
          /\ total_bytes_written' = add_bytes(total_bytes_written, len)
          /\ files' = append_to_file(Head(segments), len)
    /\ segment_index' = next_index(segment_index)
    /\ pc' = "returned"
    /\ result' = "Err"
    /\ stopCause' = "create_error"
    /\ segments' = <<>>
    /\ request_awaited(join(Head(segments)))
    /\ UNCHANGED <<cfgVars, shutdown, seen_segments, consecutive_failures,
                   segment_start, finalized, pending_commands, end_list, now,
                   polled, pollLog, finalizeCalls,
                   diagnostic, auxVars>>

\* after the for loop, end_list set: finalize, dispatch, break
EndOfStream ==
    /\ pc = "segments"
    /\ for_loop_ends
    /\ end_list
    /\ finalize
    /\ finalized' = TRUE
    /\ dispatch(current_path)
    /\ stopCause' = "end_of_stream"
    /\ pc' = "after_loop"
    /\ segments' = <<>>
    /\ UNCHANGED <<cfgVars, shutdown, seen_segments, consecutive_failures,
                   outVars, end_list, result, now, fetchLog, polled, pollLog,
                   diagnostic, in_flight,
                   auxVars>>

\* after the for loop, live playlist: sleep
KeepPolling ==
    /\ pc = "segments"
    /\ for_loop_ends
    /\ ~end_list
    /\ pc' = "sleep"
    /\ segments' = <<>>
    /\ UNCHANGED <<cfgVars, shutdown, seen_segments, consecutive_failures,
                   outVars, finalized, pending_commands, end_list, result,
                   now, fetchLog, polled, pollLog, finalizeCalls, stopCause,
                   diagnostic, in_flight,
                   auxVars>>

\* tokio::time::sleep(poll_interval) ends: back to the top of the loop
Sleep ==
    /\ pc = "sleep"
    /\ pc' = "top"
    /\ UNCHANGED <<cfgVars, shutdown, seen_segments, consecutive_failures,
                   outVars, finalized, pending_commands, plVars, result, now,
                   fetchLog, polled, pollLog, finalizeCalls, stopCause,
                   diagnostic, in_flight,
                   auxVars>>

\* after the loop: finalize unless a break branch did
FinalizeAfterLoop ==
    /\ pc = "after_loop"
    /\ IF needs_finalize
       THEN finalize /\ dispatch(current_path)
       ELSE UNCHANGED <<finalizeCalls, pending_commands>>
    /\ pc' = "drain"
    /\ UNCHANGED <<cfgVars, shutdown, seen_segments, consecutive_failures,
                   outVars, finalized, plVars, result, now, fetchLog, polled,
                   pollLog, stopCause,
                   diagnostic, in_flight,
                   auxVars>>

\* the pending hook tasks are waited for, then run returns Ok
ReturnOk ==
    /\ pc = "drain"
    /\ result' = run_result
    /\ pc' = "returned"
    /\ UNCHANGED <<cfgVars, shutdown, seen_segments, consecutive_failures,
                   outVars, finalized, pending_commands, plVars, now,
                   fetchLog, polled, pollLog, finalizeCalls, stopCause,
                   diagnostic, in_flight,
                   auxVars>>

Next ==
    \/ SetShutdown
    \/ Tick
    \/ ShutdownAtTop
    \/ StartPoll
    \/ PlaylistFetchError
    \/ PlaylistParseError
    \/ PlaylistParsed
    \/ SkipSeen
    \/ StartSegment
    \/ SegmentFetchError
    \/ SegmentWriteError
    \/ SegmentWritten
    \/ SegmentRotated
    \/ SegmentRotateError
    \/ EndOfStream
    \/ KeepPolling
    \/ Sleep
    \/ FinalizeAfterLoop
    \/ ReturnOk

Spec == Init /\ [][Next]_vars

(***************************************************************************)
(* Properties.                                                             *)
(***************************************************************************)
\* the raw URIs whose fetch has ended, in the order the fetches ended
FetchedUris == [i \in 1..Len(fetchLog) |-> fetchLog[i].uri]

\* the fetches that returned a payload
IsOk(e) == e.ok
OkFetches == SelectSeq(fetchLog, IsOk)

\* the run is inside the for loop over the segments of a playlist
InForLoop == pc \in {"segments", "segment_fetch"}

\* number of failed polls at the end of the poll history
RECURSIVE TrailingFailures(_)
TrailingFailures(log) ==
    IF log = <<>> \/ log[Len(log)] = "ok" THEN 0
    ELSE 1 + TrailingFailures(SubSeq(log, 1, Len(log) - 1))

\* how many times path was handed to the per-segment hook
Dispatched(path) ==
    Cardinality({i \in 1..Len(pending_commands) : pending_commands[i] = path})

\* C1: over any sequence of polled playlists with duplicate raw URIs, no URI
\* is fetched twice, the fetches follow the first-seen order of the URIs, a
\* URI already in seen_segments is not the one being fetched anew, and once a
\* cycle has ended without shutdown or error every URI polled so far has been
\* fetched exactly once.
C1_EachUriFetchedOnceInFirstSeenOrder ==
    /\ NoDuplicates(FetchedUris)
    /\ IsPrefix(FetchedUris, polled)
    /\ pc = "segment_fetch" =>
          /\ Head(segments) \notin Range(FetchedUris)
          /\ IsPrefix(Append(FetchedUris, Head(segments)), polled)
    /\ (~InForLoop /\ ~shutdown /\ result # "Err") => FetchedUris = polled

\* C1 witness: in a second poll, the next segment of the playlist is a URI
\* that was fetched in the first poll, and two distinct URIs have been fetched.
C1_Witness ==
    /\ pc = "segments"
    /\ Len(pollLog) = 2
    /\ Len(fetchLog) = 2
    /\ segments # <<>>
    /\ Head(segments) = fetchLog[1].uri

\* C2: while run executes and in the value it returns, total_bytes_written is
\* the sum of the payload sizes of the segment fetches that succeeded so far;
\* failed fetches, failed polls and rotations leave it alone.  (A run that
\* returned an I/O error has no returned value.)
C2_TotalBytesIsSumOfFetchedPayloads ==
    result # "Err" => total_bytes_written = SumSizes(OkFetches)

\* C2 witness: a run returned its total after a rotation, a failed poll, a
\* failed segment fetch and a successful one with a non-empty payload.
C2_Witness ==
    /\ result = "Ok"
    /\ Len(files) >= 2
    /\ total_bytes_written >= 1
    /\ "failed" \in Range(pollLog)
    /\ \E i \in 1..Len(fetchLog) : ~fetchLog[i].ok

\* C3: whichever break left the loop (shutdown at the top, end of stream,
\* failure budget), also when the shutdown flag was set during the cycle of
\* the final playlist, finalize is called exactly once and, with a hook
\* template, the path of the last file is dispatched exactly once (never
\* twice); without one nothing is dispatched for it.
C3_FinalizeAndHookExactlyOnce ==
    /\ finalizeCalls <= 1
    /\ Dispatched(current_path) <= 1
    /\ (stopCause \in {"shutdown", "end_of_stream", "failures"}
          /\ pc \in {"drain", "returned"}) =>
          /\ finalizeCalls = 1
          /\ Dispatched(current_path) = (IF on_segment THEN 1 ELSE 0)

\* C3 witness: run returned after the end-of-stream break of a cycle whose
\* for loop was broken by the shutdown flag (a polled URI was left unfetched),
\* with a hook template configured.
C3_Witness ==
    /\ result = "Ok"
    /\ stopCause = "end_of_stream"
    /\ shutdown
    /\ Len(fetchLog) < Len(polled)
    /\ on_segment
    /\ finalizeCalls = 1

\* C4: the output file is finalized exactly once, and its completion hook
\* dispatched, on every exit path of run, the abnormal ones included (an I/O
\* error of write or maybe_rotate, a segment URI that does not resolve).
C4_FinalizedOnEveryExitPath ==
    pc = "returned" =>
       /\ finalizeCalls = 1
       /\ on_segment => Dispatched(current_path) = 1

\* C5: with max_failures = N > 0 the loop gives up because of failures
\* exactly when the last N polls have all failed: fetch errors and parse
\* errors feed one counter, a successful poll resets it, and the counter is
\* the number of failed polls since the last successful one.
C5_GivesUpExactlyAfterNConsecutiveFailures ==
    /\ consecutive_failures = TrailingFailures(pollLog)
    /\ stopCause = "failures" <=>
          (max_failures > 0 /\ TrailingFailures(pollLog) >= max_failures)
    /\ stopCause = "failures" => TrailingFailures(pollLog) = max_failures

\* C5 witness: with N = 2 the loop gave up on the third poll, after a
\* successful poll and then a fetch error followed by a parse error.
C5_Witness ==
    /\ max_failures = 2
    /\ stopCause = "failures"
    /\ pollLog = <<"ok", "failed", "failed">>
    /\ diagnostic = "parse_error"

\* C6 as stated: when the failure budget is exhausted, run returns an error.
C6_GiveUpReturnsError ==
    (stopCause = "failures" /\ pc = "returned") => result = "Err"

\* C6 amended: when the failure budget is exhausted, run stops and returns
\* the success value (total bytes written, pending hook handles).
C6_GiveUpReturnsOk ==
    (stopCause = "failures" /\ pc = "returned") => result = "Ok"

\* C6 witness: run has returned after giving up on the failure budget.
C6_Witness ==
    /\ stopCause = "failures"
    /\ pc = "returned"
    /\ consecutive_failures = max_failures

\* C7: with max_failures = 0 no number of consecutive failed polls stops the
\* loop: after each failed poll it sleeps and polls again, and it leaves the
\* loop only by end of stream or shutdown.
C7_ZeroBudgetNeverGivesUp ==
    /\ [](max_failures = 0 =>
            /\ stopCause # "failures"
            /\ pc \in {"after_loop", "drain"} =>
                  stopCause \in {"end_of_stream", "shutdown"})
    /\ [][(max_failures = 0 /\ pollLog' = Append(pollLog, "failed"))
            => pc' = "sleep"]_vars

\* C7 witness: with max_failures = 0, three polls in a row have failed and
\* the loop is sleeping before the next poll.
C7_Witness ==
    /\ max_failures = 0
    /\ consecutive_failures >= 3
    /\ pc = "sleep"

\* C8: once the shutdown flag has been set during the run, run ends with the
\* current file finalized (and stops within one poll cycle).
C8_ShutdownFinalizesAndStops ==
    (shutdown /\ pc = "returned") => finalizeCalls = 1

\* C9: a failed segment fetch is local: the loop goes on to the next segment
\* of the same playlist, run does not return, nothing is written, no hook is
\* dispatched and the consecutive-failure counter keeps its value.
C9_FailedSegmentFetchIsLocal ==
    [][(Len(fetchLog') = Len(fetchLog) + 1 /\ ~fetchLog'[Len(fetchLog')].ok)
         => /\ pc' = "segments"
            /\ segments' = Tail(segments)
            /\ result' = "running"
            /\ stopCause' = stopCause
            /\ files' = files
            /\ total_bytes_written' = total_bytes_written
            /\ segment_index' = segment_index
            /\ pending_commands' = pending_commands
            /\ consecutive_failures' = consecutive_failures]_vars

\* C9 witness: within one poll, a failed segment fetch was followed by a
\* successful fetch of the next segment.
C9_Witness ==
    /\ Len(pollLog) = 1
    /\ Len(fetchLog) = 2
    /\ ~fetchLog[1].ok
    /\ fetchLog[2].ok

\* the payload chunks of all files of the run
WrittenUris == UNION {{files[k][j].uri : j \in 1..Len(files[k])} :
                        k \in 1..Len(files)}

\* C10: a URI is in seen_segments before its fetch starts, so a segment
\* whose fetch failed is never fetched again and never written, however
\* often later polls list it.
C10_FailedSegmentNeverRetried ==
    /\ Range(FetchedUris) \subseteq seen_segments
    /\ pc = "segment_fetch" => Head(segments) \in seen_segments
    /\ \A i \in 1..Len(fetchLog) :
          ~fetchLog[i].ok =>
             /\ \A j \in 1..Len(fetchLog) :
                   fetchLog[j].uri = fetchLog[i].uri => j = i
             /\ fetchLog[i].uri \notin WrittenUris
             /\ pc = "segment_fetch" => Head(segments) # fetchLog[i].uri

\* C10 witness: a later poll lists, as its next segment, a URI whose fetch
\* failed in an earlier poll.
C10_Witness ==
    /\ pc = "segments"
    /\ Len(pollLog) >= 2
    /\ segments # <<>>
    /\ \E i \in 1..Len(fetchLog) :
          ~fetchLog[i].ok /\ fetchLog[i].uri = Head(segments)

(***************************************************************************)
(* fetch_with_retry (src/src/http_client.rs), followed attempt by attempt. *)
(* The call is modelled on its own: the ingestion loop stands still while  *)
(* one call runs with arguments drawn from the bounds.  Time passes only   *)
(* while the call is suspended in an await (the attempt, the sleep); the   *)
(* timers of tokio fire exactly at their deadline.                         *)
(***************************************************************************)
\* response bodies fetch_url can return
Bodies == {"body_a", "body_b"}
\* errors fetch_url can return (a connection error, a non-2xx status)
FetchErrors == {"connect_error", "HTTP 404"}
\* the error of an attempt cut off by tokio::time::timeout
TimedOut == "Request timed out"
\* the error returned when no attempt was made
BudgetExhausted == "Fetch failed after total_timeout"

\* the ingestion loop is constructed and never started
RunIdle == RunInit /\ max_failures = 0 /\ on_segment = FALSE

\* the ingestion loop has not been started and nothing it calls runs
IngestIdle == RunIdle /\ FetchIdle /\ DirIdle /\ DrainIdle

\* Duration::saturating_sub
saturating_sub(a, b) == IF a >= b THEN a - b ELSE 0

\* the timeout given to one attempt: what is left of the budget
attempt_timeout(total, spent) == saturating_sub(total, spent)

sleep_time_unclamped(delay, total, spent) == delay

\* the wait between two attempts
sleep_time(delay, total, spent) ==
    IF delay <= saturating_sub(total, spent)
    THEN delay
    ELSE saturating_sub(total, spent)

\* `start.elapsed() >= total_timeout`
budget_spent(total, spent) == spent >= total

set_last_err_keep_first(err, new) == IF err = "None" THEN new ELSE err

\* `last_err = Some(e)`: the newest error replaces the one kept
set_last_err(err, new) == new

unwrap_last_err_timed_out(err) == IF err = "None" THEN TimedOut ELSE err

\* `last_err.unwrap_or_else(|| format!("Fetch failed after ..."))`
unwrap_last_err(err) == IF err = "None" THEN BudgetExhausted ELSE err

InitFetch ==
    /\ RunIdle
    /\ DirIdle
    /\ DrainIdle
    /\ CallsIdle
    /\ total_timeout \in 0..MaxTimeout
    /\ max_retries \in 0..MaxRetries
    /\ retry_delay \in 0..MaxRetryDelay
    /\ f_pc = "loop_head"
    /\ attempt = 0
    /\ elapsed = 0
    /\ remaining = 0
    /\ attempt_time = 0
    /\ sleep_left = 0
    /\ last_err = "None"
    /\ fetch_result = [kind |-> "pending", val |-> "None"]
    /\ attemptLog = <<>>

\* the range 0..=max_retries is used up: the for loop ends
FetchLoopDone ==
    /\ f_pc = "loop_head"
    /\ attempt > max_retries
    /\ f_pc' = "exit"
    /\ UNCHANGED <<total_timeout, max_retries, retry_delay, attempt,
                   elapsed, remaining, attempt_time, sleep_left, last_err,
                   fetch_result, attemptLog,
                   notFetchVars>>

\* the budget is used up before an attempt: `break` (lines 85 and 91)
FetchBudgetBreak ==
    /\ f_pc = "loop_head"
    /\ attempt <= max_retries
    /\ \/ budget_spent(total_timeout, elapsed)
       \/ attempt_timeout(total_timeout, elapsed) = 0
    /\ f_pc' = "exit"
    /\ UNCHANGED <<total_timeout, max_retries, retry_delay, attempt,
                   elapsed, remaining, attempt_time, sleep_left, last_err,
                   fetch_result, attemptLog,
                   notFetchVars>>

\* an attempt starts under a timeout of the remaining budget
FetchStartAttempt ==
    /\ f_pc = "loop_head"
    /\ attempt <= max_retries
    /\ ~budget_spent(total_timeout, elapsed)
    /\ attempt_timeout(total_timeout, elapsed) # 0
    /\ remaining' = attempt_timeout(total_timeout, elapsed)
    /\ attempt_time' = 0
    /\ f_pc' = "attempt"
    /\ UNCHANGED <<total_timeout, max_retries, retry_delay, attempt,
                   elapsed, sleep_left, last_err, fetch_result,
                   attemptLog, notFetchVars>>

\* a time unit passes while fetch_url is in flight
FetchAttemptTick ==
    /\ f_pc = "attempt"
    /\ attempt_time < remaining
    /\ attempt_time' = attempt_time + 1
    /\ elapsed' = elapsed + 1
    /\ UNCHANGED <<total_timeout, max_retries, retry_delay, f_pc, attempt,
                   remaining, sleep_left, last_err, fetch_result,
                   attemptLog, notFetchVars>>

\* `Ok(Ok(data)) => return Ok(data)`
FetchAttemptOk ==
    /\ f_pc = "attempt"
    /\ \E body \in Bodies :
        /\ attemptLog' = Append(attemptLog,
               [kind |-> "Ok", val |-> body, no |-> attempt,
                from |-> elapsed - attempt_time, at |-> elapsed])
        /\ fetch_result' = [kind |-> "Ok", val |-> body]
    /\ f_pc' = "done"
    /\ UNCHANGED <<total_timeout, max_retries, retry_delay, attempt,
                   elapsed, remaining, attempt_time, sleep_left, last_err,
                   notFetchVars>>

\* `Ok(Err(e)) => last_err = Some(e)`
FetchAttemptErr ==
    /\ f_pc = "attempt"
    /\ \E e \in FetchErrors :
        /\ attemptLog' = Append(attemptLog,
               [kind |-> "Err", val |-> e, no |-> attempt,
                from |-> elapsed - attempt_time, at |-> elapsed])
        /\ last_err' = set_last_err(last_err, e)
    /\ f_pc' = "after_attempt"
    /\ UNCHANGED <<total_timeout, max_retries, retry_delay, attempt,
                   elapsed, remaining, attempt_time, sleep_left,
                   fetch_result,
                   notFetchVars>>

\* `Err(_) => last_err = Some("Request timed out")`: the timeout fired
FetchAttemptTimeout ==
    /\ f_pc = "attempt"
    /\ attempt_time >= remaining
    /\ attemptLog' = Append(attemptLog,
           [kind |-> "Err", val |-> TimedOut, no |-> attempt,
            from |-> elapsed - attempt_time, at |-> elapsed])
    /\ last_err' = set_last_err(last_err, TimedOut)
    /\ f_pc' = "after_attempt"
    /\ UNCHANGED <<total_timeout, max_retries, retry_delay, attempt,
                   elapsed, remaining, attempt_time, sleep_left,
                   fetch_result,
                   notFetchVars>>

\* lines 103-109 with a wait to make
FetchStartSleep ==
    /\ f_pc = "after_attempt"
    /\ attempt < max_retries
    /\ elapsed < total_timeout
    /\ sleep_time(retry_delay, total_timeout, elapsed) # 0
    /\ sleep_left' = sleep_time(retry_delay, total_timeout, elapsed)
    /\ f_pc' = "sleep"
    /\ UNCHANGED <<total_timeout, max_retries, retry_delay, attempt,
                   elapsed, remaining, attempt_time, last_err,
                   fetch_result, attemptLog,
                   notFetchVars>>

\* lines 103-109 without a wait: straight to the next iteration
FetchNoSleep ==
    /\ f_pc = "after_attempt"
    /\ ~ /\ attempt < max_retries
         /\ elapsed < total_timeout
         /\ sleep_time(retry_delay, total_timeout, elapsed) # 0
    /\ attempt' = attempt + 1
    /\ f_pc' = "loop_head"
    /\ UNCHANGED <<total_timeout, max_retries, retry_delay, elapsed,
                   remaining, attempt_time, sleep_left, last_err,
                   fetch_result, attemptLog,
                   notFetchVars>>

\* a time unit passes in tokio::time::sleep
FetchSleepTick ==
    /\ f_pc = "sleep"
    /\ sleep_left > 0
    /\ sleep_left' = sleep_left - 1
    /\ elapsed' = elapsed + 1
    /\ UNCHANGED <<total_timeout, max_retries, retry_delay, f_pc, attempt,
                   remaining, attempt_time, last_err, fetch_result,
                   attemptLog, notFetchVars>>

\* the sleep is over: next iteration
FetchSleepDone ==
    /\ f_pc = "sleep"
    /\ sleep_left = 0
    /\ attempt' = attempt + 1
    /\ f_pc' = "loop_head"
    /\ UNCHANGED <<total_timeout, max_retries, retry_delay, elapsed,
                   remaining, attempt_time, sleep_left, last_err,
                   fetch_result, attemptLog,
                   notFetchVars>>

\* line 112: `Err(last_err.unwrap_or_else(..))`
FetchReturnErr ==
    /\ f_pc = "exit"
    /\ fetch_result' = [kind |-> "Err", val |-> unwrap_last_err(last_err)]
    /\ f_pc' = "done"
    /\ UNCHANGED <<total_timeout, max_retries, retry_delay, attempt,
                   elapsed, remaining, attempt_time, sleep_left, last_err,
                   attemptLog, notFetchVars>>

NextFetch ==
    \/ FetchLoopDone
    \/ FetchBudgetBreak
    \/ FetchStartAttempt
    \/ FetchAttemptTick
    \/ FetchAttemptOk
    \/ FetchAttemptErr
    \/ FetchAttemptTimeout
    \/ FetchStartSleep
    \/ FetchNoSleep
    \/ FetchSleepTick
    \/ FetchSleepDone
    \/ FetchReturnErr

SpecFetch == InitFetch /\ [][NextFetch]_vars

(***************************************************************************)
(* Properties of fetch_with_retry.                                         *)
(***************************************************************************)
\* the attempts made so far all failed
AllAttemptsFailed == \A i \in 1..Len(attemptLog) : attemptLog[i].kind = "Err"

\* fetch_with_retry has returned
FetchReturned == f_pc = "done"

\* C11: fetch_with_retry makes at most max_retries + 1 attempts, numbered
\* 0, 1, 2, ... without a gap; a successful attempt is the last attempt
\* made and its body is what the call returns; when the call returns an
\* error after at least one attempt, every attempt failed and the error
\* is the one of the last attempt (the time-out error when it timed out).
C11_AtMostRetriesPlusOneAttemptsFirstOkOrLastErr ==
    /\ Len(attemptLog) <= max_retries + 1
    /\ \A i \in 1..Len(attemptLog) : attemptLog[i].no = i - 1
    /\ \A i \in 1..Len(attemptLog) :
           attemptLog[i].kind = "Ok" =>
               /\ i = Len(attemptLog)
               /\ FetchReturned
               /\ fetch_result = [kind |-> "Ok", val |-> attemptLog[i].val]
    /\ fetch_result.kind = "Ok" =>
           /\ attemptLog # <<>>
           /\ attemptLog[Len(attemptLog)].kind = "Ok"
    /\ (fetch_result.kind = "Err" /\ attemptLog # <<>>) =>
           /\ AllAttemptsFailed
           /\ fetch_result.val = attemptLog[Len(attemptLog)].val

\* three attempts failed with different errors, the last one by time-out,
\* and the call has returned
C11_Witness ==
    /\ FetchReturned
    /\ fetch_result.kind = "Err"
    /\ Len(attemptLog) = 3
    /\ attemptLog[1].val = "connect_error"
    /\ attemptLog[2].val = "HTTP 404"
    /\ attemptLog[3].val = TimedOut

\* C12: one budget covers the whole call: the attempt in flight was given
\* exactly the budget left when it started and never runs past it, a wait
\* between attempts never reaches past the budget, and so the time from
\* call to return is at most total_timeout, whatever max_retries is.
C12_ElapsedBoundedByTotalTimeout ==
    /\ f_pc = "attempt" =>
           /\ remaining = total_timeout - (elapsed - attempt_time)
           /\ attempt_time <= remaining
    /\ f_pc = "sleep" =>
           /\ sleep_left <= retry_delay
           /\ elapsed + sleep_left <= total_timeout
    /\ \A i \in 1..Len(attemptLog) : attemptLog[i].at <= total_timeout
    /\ (FetchReturned /\ AllAttemptsFailed) => elapsed <= total_timeout

\* the only attempt failed one time unit before the budget ran out, the
\* longest retry delay was cut down to that unit, and the call returned
\* when the budget was used up although retries were left
C12_Witness ==
    /\ FetchReturned
    /\ fetch_result.kind = "Err"
    /\ total_timeout = MaxTimeout
    /\ retry_delay = MaxRetryDelay
    /\ max_retries = MaxRetries
    /\ Len(attemptLog) = 1
    /\ attemptLog[1].at = MaxTimeout - 1
    /\ elapsed = total_timeout

\* C13: every attempt started while budget was left; a call that made no
\* attempt returns the budget-exhausted error; with total_timeout = 0 no
\* attempt is ever made, whatever max_retries is.
C13_NoAttemptWithoutBudget ==
    /\ f_pc = "attempt" => elapsed - attempt_time < total_timeout
    /\ \A i \in 1..Len(attemptLog) : attemptLog[i].from < total_timeout
    /\ (FetchReturned /\ attemptLog = <<>>) =>
           fetch_result = [kind |-> "Err", val |-> BudgetExhausted]
    /\ total_timeout = 0 =>
           /\ f_pc # "attempt"
           /\ attemptLog = <<>>

\* a call with no budget and the most retries has returned
C13_Witness ==
    /\ FetchReturned
    /\ total_timeout = 0
    /\ max_retries = MaxRetries
    /\ fetch_result.val = BudgetExhausted

(***************************************************************************)
(* OutputFile (src/src/output.rs) followed method by method in an output   *)
(* directory that may hold files before OutputFile::new runs.  Any         *)
(* sequence of write, maybe_rotate and finalize calls is made on the       *)
(* object; a call that returns Err is the last one, as in every caller of  *)
(* the repository (`?` in TsDownloader::run).  A path is the pair of the   *)
(* formatted start time and the index; the directory and the extension     *)
(* are the same for every path.                                            *)
(***************************************************************************)
\* OutputFile::format_filename: "{start %Y_%m_%d-%H_%M}_{index}.{ext}"
format_filename(start, index) == <<start, index>>

\* Path::exists
exists(path) == path \in DOMAIN dir

\* a file some other program left in the directory
Foreign == [by |-> "other", data |-> <<>>]

\* a file as File::create leaves it: empty
Created == [by |-> "self", data |-> <<>>]

\* File::create: the file is created, or truncated when it exists
create(path) ==
    [p \in DOMAIN dir \cup {path} |-> IF p = path THEN Created ELSE dir[p]]

first_free_from_zero(start, index) == 0

\* the loop of OutputFile::new: the first index whose file does not exist
RECURSIVE first_free(_, _)
first_free(start, index) ==
    IF ~exists(format_filename(start, index))
    THEN index
    ELSE first_free(start, index + 1)

\* the path of the file the fields name (OutputFile::current_path)
current_file == format_filename(start_time, segment_index)

flush_skipped(method) == flushLog' = flushLog

\* File::flush, called from `method`
flush(method) == flushLog' = Append(flushLog, method)

\* the directories OutputFile::new can find
Directories ==
    { [p \in {format_filename(0, i) : i \in S} |-> Foreign] :
          S \in SUBSET (0..MaxPre) }

InitFile ==
    /\ RunIdle
    /\ FetchIdle
    /\ DrainIdle
    /\ CallsIdle
    /\ wall = 0
    /\ start_time = 0
    /\ dir \in Directories
    /\ file = <<>>
    /\ o_state = "unopened"
    /\ createLog = <<>>
    /\ returned = <<>>
    /\ flushLog = <<>>
    /\ writes = 0

\* a second passes on the monotonic clock (Instant)
FileTick ==
    /\ now < MaxTime
    /\ now' = now + 1
    /\ UNCHANGED <<segment_index, segment_start, total_bytes_written,
                   finalizeCalls, dirVars, notFileVars>>

\* the wall clock (Local::now) reaches the next minute
FileMinute ==
    /\ wall < MaxMinute
    /\ wall' = wall + 1
    /\ UNCHANGED <<segment_index, segment_start, total_bytes_written,
                   finalizeCalls, now, start_time, dir, file, o_state,
                   createLog, returned, flushLog, writes, notFileVars>>

\* OutputFile::new returns Ok
FileNew ==
    /\ o_state = "unopened"
    /\ start_time' = wall
    /\ segment_index' = first_free(wall, 0)
    /\ file' = format_filename(wall, first_free(wall, 0))
    /\ dir' = create(format_filename(wall, first_free(wall, 0)))
    /\ createLog' = Append(createLog,
           [path |-> format_filename(wall, first_free(wall, 0)),
            existed |-> exists(format_filename(wall, first_free(wall, 0))),
            at |-> now])
    /\ segment_start' = now
    /\ total_bytes_written' = 0
    /\ o_state' = "open"
    /\ UNCHANGED <<finalizeCalls, now, wall, returned, flushLog, writes,
                   notFileVars>>

\* OutputFile::new returns Err: File::create failed, no object exists
FileNewError ==
    /\ o_state = "unopened"
    /\ o_state' = "failed"
    /\ UNCHANGED <<segment_index, segment_start, total_bytes_written,
                   finalizeCalls, now, wall, start_time, dir, file,
                   createLog, returned, flushLog, writes, notFileVars>>

\* OutputFile::write returns Ok
FileWrite ==
    /\ o_state = "open"
    /\ writes < MaxWrites
    /\ \E len \in PayloadSizes :
        /\ dir' = [dir EXCEPT ![file].data = Append(@, len)]
        /\ total_bytes_written' = add_bytes(total_bytes_written, len)
    /\ writes' = writes + 1
    /\ UNCHANGED <<segment_index, segment_start, finalizeCalls, now, wall,
                   start_time, file, o_state, createLog, returned,
                   flushLog, notFileVars>>

\* OutputFile::write returns Err: write_all failed after `done` bytes
FileWriteError ==
    /\ o_state = "open"
    /\ writes < MaxWrites
    /\ \E len \in PayloadSizes \ {0} :
        \E done \in 0..(len - 1) :
            dir' = IF done = 0 THEN dir
                   ELSE [dir EXCEPT ![file].data = Append(@, done)]
    /\ writes' = writes + 1
    /\ o_state' = "failed"
    /\ UNCHANGED <<segment_index, segment_start, total_bytes_written,
                   finalizeCalls, now, wall, start_time, file, createLog,
                   returned, flushLog, notFileVars>>

\* OutputFile::maybe_rotate returns Ok(None)
FileKeep ==
    /\ o_state = "open"
    /\ ~rotation_due
    /\ UNCHANGED vars

\* OutputFile::maybe_rotate returns Ok(Some(completed_path))
FileRotate ==
    /\ o_state = "open"
    /\ rotation_due
    /\ flush("maybe_rotate")
    /\ returned' = Append(returned,
           [call |-> "maybe_rotate", path |-> current_file])
    /\ segment_index' = next_index(segment_index)
    /\ file' = format_filename(start_time, next_index(segment_index))
    /\ dir' = create(format_filename(start_time, next_index(segment_index)))
    /\ createLog' = Append(createLog,
           [path |-> format_filename(start_time, next_index(segment_index)),
            existed |-> exists(format_filename(start_time,
                                               next_index(segment_index))),
            at |-> now])
    /\ segment_start' = now
    /\ UNCHANGED <<total_bytes_written, finalizeCalls, now, wall,
                   start_time, o_state, writes, notFileVars>>

\* OutputFile::maybe_rotate returns Err: File::create failed after the
\* index was advanced
FileRotateError ==
    /\ o_state = "open"
    /\ rotation_due
    /\ flush("maybe_rotate")
    /\ segment_index' = next_index(segment_index)
    /\ o_state' = "failed"
    /\ UNCHANGED <<segment_start, total_bytes_written, finalizeCalls, now,
                   wall, start_time, dir, file, createLog, returned, writes,
                   notFileVars>>

\* OutputFile::finalize returns Ok(current_path)
FileFinalize ==
    /\ o_state = "open"
    /\ finalizeCalls < MaxFinalize
    /\ finalize
    /\ flush("finalize")
    /\ returned' = Append(returned,
           [call |-> "finalize", path |-> current_file])
    /\ UNCHANGED <<segment_index, segment_start, total_bytes_written, now,
                   wall, start_time, dir, file, o_state, createLog, writes,
                   notFileVars>>

NextFile ==
    \/ FileTick
    \/ FileMinute
    \/ FileNew
    \/ FileNewError
    \/ FileWrite
    \/ FileWriteError
    \/ FileKeep
    \/ FileRotate
    \/ FileRotateError
    \/ FileFinalize

SpecFile == InitFile /\ [][NextFile]_vars

(***************************************************************************)
(* Properties of OutputFile.                                               *)
(***************************************************************************)
\* the paths maybe_rotate returned, in order
RotatedPaths ==
    SelectSeq(returned, LAMBDA r : r.call = "maybe_rotate")

\* the paths finalize returned, in order
FinalizedPaths ==
    SelectSeq(returned, LAMBDA r : r.call = "finalize")

\* C14: the files one OutputFile creates carry the start time taken by new
\* and consecutive indices: each rotation creates the file of the next
\* index, returns the path of the file it closes, and comes at least
\* segment_duration after the creation of that file (the open, or the
\* rotation before).
C14_RotationIndexStartStampAndSpacing ==
    /\ \A k \in 1..Len(createLog) :
           /\ createLog[k].path[1] = start_time
           /\ createLog[k].path[2] = createLog[1].path[2] + (k - 1)
    /\ \A k \in 1..(Len(createLog) - 1) :
           createLog[k + 1].at - createLog[k].at >= segment_secs
    /\ Len(RotatedPaths) = Len(createLog) - (IF createLog = <<>> THEN 0 ELSE 1)
    /\ \A k \in 1..Len(RotatedPaths) :
           RotatedPaths[k].path = createLog[k].path
    /\ o_state = "open" =>
           /\ current_file = createLog[Len(createLog)].path
           /\ file = current_file
           /\ segment_start = createLog[Len(createLog)].at

\* two rotations were made after the minute of the wall clock had changed,
\* starting from an index above 0
C14_Witness ==
    /\ o_state = "open"
    /\ Len(createLog) = 3
    /\ createLog[1].path[2] > 0
    /\ wall > start_time
    /\ writes > 0

\* C15: the file OutputFile::new creates did not exist before, every file
\* name of the same start time with a smaller index did and is left as it
\* was, and the new file is the one the object writes to.
C15_NewPicksSmallestFreeIndex ==
    createLog # <<>> =>
        /\ ~createLog[1].existed
        /\ createLog[1].path[1] = start_time
        /\ exists(createLog[1].path)
        /\ dir[createLog[1].path].by = "self"
        /\ \A i \in 0..(createLog[1].path[2] - 1) :
               /\ exists(format_filename(start_time, i))
               /\ dir[format_filename(start_time, i)] = Foreign
        /\ Len(createLog) = 1 =>
               \A p \in DOMAIN dir : p # createLog[1].path => dir[p] = Foreign

\* new found the files of index 0 and 2 and created the file of index 1
C15_Witness ==
    /\ o_state = "open"
    /\ Len(createLog) = 1
    /\ createLog[1].path = format_filename(start_time, 1)
    /\ exists(format_filename(start_time, 2))
    /\ dir[format_filename(start_time, 2)] = Foreign

\* C31: no File::create of the OutputFile, in new or in maybe_rotate, opens
\* a path at which a file existed already, so no file found in the output
\* directory is truncated.
C31_NeverTruncatesExistingFile ==
    \A i \in 1..Len(createLog) : ~createLog[i].existed

\* the File::flush calls made by finalize
FinalizeFlushes == SelectSeq(flushLog, LAMBDA m : m = "finalize")

\* C16 as stated: after the first call of finalize no further flush is
\* made by finalize.
C16_SecondFinalizeDoesNotFlush == Len(FinalizeFlushes) <= 1

\* C16, amended: every call of finalize flushes the open file once more
\* and returns the current path; it leaves the index, the byte counter,
\* the rotation clock, the open file and the directory as they were, so
\* two calls with no rotation between them return the same path.
C16_FinalizeRepeatableFlushingEachTime ==
    /\ [](/\ Len(FinalizeFlushes) = finalizeCalls
          /\ Len(FinalizedPaths) = finalizeCalls
          /\ \A i \in 1..(Len(returned) - 1) :
                 (returned[i].call = "finalize"
                      /\ returned[i + 1].call = "finalize")
                     => returned[i + 1].path = returned[i].path)
    /\ [][finalizeCalls' # finalizeCalls =>
              /\ returned' = Append(returned,
                     [call |-> "finalize", path |-> current_file])
              /\ flushLog' = Append(flushLog, "finalize")
              /\ UNCHANGED <<segment_index, segment_start,
                             total_bytes_written, start_time, file, dir,
                             createLog, o_state>>]_vars

\* finalize was called twice in a row on a file that had been written to
\* and rotated
C16_Witness ==
    /\ finalizeCalls = 2
    /\ writes > 0
    /\ Len(createLog) = 2
    /\ returned[Len(returned)].call = "finalize"
    /\ returned[Len(returned) - 1].call = "finalize"

(***************************************************************************)
(* Properties of the files and hooks of a run.                             *)
(***************************************************************************)
\* the sequences of `seqs`, one after the other
RECURSIVE Flatten(_)
Flatten(seqs) ==
    IF seqs = <<>> THEN <<>> ELSE Head(seqs) \o Flatten(Tail(seqs))

\* the payloads fetched with success, in the order of their fetches
OkPayloads ==
    [i \in 1..Len(OkFetches) |->
        [uri |-> OkFetches[i].uri, size |-> OkFetches[i].size]]

\* all but the last element
Front(seq) == SubSeq(seq, 1, Len(seq) - 1)

\* C17 as stated: at the end of any run the files of the run, one after
\* the other in index order, hold exactly the payloads fetched with
\* success, in fetch order.
C17_FilesHoldEveryFetchedPayload ==
    pc = "returned" => Flatten(files) = OkPayloads

\* C17, amended: the files, one after the other in index order, hold the
\* payloads that were fetched and written with success, whole and in fetch
\* order; only a run that a failed write ended lacks the payload fetched
\* last, of which the files hold nothing or a proper prefix at their end.
C17_FilesHoldEveryWrittenPayload ==
    IF stopCause = "write_error"
    THEN /\ OkPayloads # <<>>
         /\ \/ Flatten(files) = Front(OkPayloads)
            \/ \E done \in 1..(OkPayloads[Len(OkPayloads)].size - 1) :
                  Flatten(files) = Append(Front(OkPayloads),
                      [uri |-> OkPayloads[Len(OkPayloads)].uri,
                       size |-> done])
    ELSE Flatten(files) = OkPayloads

\* a run wrote into its first file, rotated, and was ended by the failed
\* write of the next payload
C17_Witness ==
    /\ pc = "returned"
    /\ stopCause = "write_error"
    /\ Len(files) = 2
    /\ Len(files[1]) >= 1
    /\ Len(OkPayloads) = Len(files[1]) + 1

\* number of rotations of the run: every rotation opens one more file
Rotations == Len(files) - 1

\* C18: with a template, the hooks dispatched are, in order, one for the
\* path of every rotation (indices 0, 1, ...) and, once finalize was
\* called, one for the path it returned; so a run that returns Ok after k
\* rotations has dispatched k + 1 hooks with the k + 1 distinct paths of
\* its files.  Without a template nothing is dispatched.
C18_OneHookPerCompletedFile ==
    /\ on_segment =>
           pending_commands =
               [i \in 1..(Rotations + finalizeCalls) |-> i - 1]
    /\ ~on_segment => pending_commands = <<>>
    /\ (on_segment /\ result = "Ok") =>
           /\ Len(pending_commands) = Rotations + 1
           /\ NoDuplicates(pending_commands)
           /\ Range(pending_commands) = 0..segment_index

\* a run with a template returned Ok after a rotation: two hooks
C18_Witness ==
    /\ on_segment
    /\ result = "Ok"
    /\ Rotations = 1
    /\ Len(pending_commands) = 2

\* run is suspended in the await of a fetch
Fetching == pc \in {"playlist_fetch", "segment_fetch"}

\* C20: at most one request (playlist or segment) is in flight, and one is
\* in flight exactly while run awaits it; a segment request starts only
\* when no other request is running and every payload fetched before is in
\* the files; and the step that ends a successful segment fetch and goes
\* on with the playlist has written the payload and, when the rotation was
\* due, rotated.
C20_FetchesStrictlySequential ==
    /\ [](/\ Cardinality(in_flight) <= 1
          /\ in_flight # {} <=> Fetching
          /\ pc = "segment_fetch" =>
                 /\ in_flight = {request(join(Head(segments)))}
                 /\ Flatten(files) = OkPayloads)
    /\ [][(pc # "segment_fetch" /\ pc' = "segment_fetch") =>
              /\ in_flight = {}
              /\ fetchLog' = fetchLog
              /\ Flatten(files) = OkPayloads]_vars
    /\ [][(pc = "segment_fetch" /\ pc' = "segments"
               /\ fetchLog'[Len(fetchLog')].ok) =>
              /\ in_flight' = {}
              /\ Flatten(files') = Append(Flatten(files),
                     [uri |-> fetchLog'[Len(fetchLog')].uri,
                      size |-> fetchLog'[Len(fetchLog')].size])
              /\ segment_index' =
                     IF rotation_due THEN segment_index + 1
                     ELSE segment_index]_vars

\* the second segment of a playlist is being fetched after the first one
\* was fetched, written and the file rotated
C20_Witness ==
    /\ pc = "segment_fetch"
    /\ Len(fetchLog) = 1
    /\ fetchLog[1].ok
    /\ Rotations = 1
    /\ Len(pollLog) = 1

(***************************************************************************)
(* The wait for the pending hook tasks at the end of TsDownloader::run     *)
(* (src/src/downloader.rs 202-219).  A hook task runs `sh -c` on a         *)
(* blocking thread (run_segment_command_async, src/src/commands.rs): it    *)
(* may end at any moment, with success, with a failure that is only        *)
(* logged, or by a panic, and it may never end.                            *)
(***************************************************************************)
\* the states of a hook task; all but "running" make is_finished() true
TaskEnds == {"exited_ok", "exited_failed", "panicked"}
TaskStates == {"running"} \cup TaskEnds

\* JoinHandle::is_finished
is_finished(handle) == handle \in TaskEnds

\* `pending_commands.iter().filter(|p| !p.is_finished()).count()`
unfinished == Cardinality({i \in 1..Len(handles) : ~is_finished(handles[i])})

wait_expired_never(secs) == FALSE

\* the deadline of tokio::time::timeout(Duration::from_secs(60), handle)
wait_expired(secs) == secs >= HookWaitSecs

InitDrain ==
    /\ RunIdle
    /\ FetchIdle
    /\ DirIdle
    /\ CallsIdle
    /\ handles \in SeqsUpTo(TaskStates, MaxHooks)
    /\ drain_pc = "check"
    /\ handle_i = 0
    /\ waited = 0
    /\ warnings = <<>>
    /\ drain_result = "pending"
    /\ waitLog = <<>>

\* a running hook task ends
HookEnds ==
    /\ drain_pc # "done"
    /\ \E i \in 1..Len(handles), end \in TaskEnds :
        /\ handles[i] = "running"
        /\ handles' = [handles EXCEPT ![i] = end]
    /\ UNCHANGED <<drain_pc, handle_i, waited, warnings, drain_result,
                   waitLog, notDrainVars>>

\* no handle is pending, or every task has finished: nothing to wait for
DrainNothingToWaitFor ==
    /\ drain_pc = "check"
    /\ (handles = <<>> \/ unfinished = 0)
    /\ drain_pc' = "return"
    /\ UNCHANGED <<handles, handle_i, waited, warnings, drain_result,
                   waitLog, notDrainVars>>

\* some task has not finished: the for loop over the handles starts
DrainBegin ==
    /\ drain_pc = "check"
    /\ handles # <<>>
    /\ unfinished > 0
    /\ handle_i' = 1
    /\ drain_pc' = "next"
    /\ UNCHANGED <<handles, waited, warnings, drain_result, waitLog,
                   notDrainVars>>

\* the handle is finished already: next handle
DrainSkipFinished ==
    /\ drain_pc = "next"
    /\ handle_i <= Len(handles)
    /\ is_finished(handles[handle_i])
    /\ handle_i' = handle_i + 1
    /\ UNCHANGED <<handles, drain_pc, waited, warnings, drain_result,
                   waitLog, notDrainVars>>

\* the handle is not finished: it is awaited under the timeout
DrainWait ==
    /\ drain_pc = "next"
    /\ handle_i <= Len(handles)
    /\ ~is_finished(handles[handle_i])
    /\ waited' = 0
    /\ drain_pc' = "wait"
    /\ UNCHANGED <<handles, handle_i, warnings, drain_result, waitLog,
                   notDrainVars>>

\* a second passes while the handle is awaited
DrainTick ==
    /\ drain_pc = "wait"
    /\ ~is_finished(handles[handle_i])
    /\ ~wait_expired(waited)
    /\ waited' = waited + 1
    /\ UNCHANGED <<handles, drain_pc, handle_i, warnings, drain_result,
                   waitLog, notDrainVars>>

\* `Ok(_) => {}`: the task ended in time, however it ended
DrainJoined ==
    /\ drain_pc = "wait"
    /\ is_finished(handles[handle_i])
    /\ waitLog' = Append(waitLog, [handle |-> handle_i, expired |-> FALSE])
    /\ waited' = 0
    /\ handle_i' = handle_i + 1
    /\ drain_pc' = "next"
    /\ UNCHANGED <<handles, warnings, drain_result, notDrainVars>>

\* `Err(_) => eprintln!("Warning: .. timed out after 60s")`
DrainTimedOut ==
    /\ drain_pc = "wait"
    /\ ~is_finished(handles[handle_i])
    /\ wait_expired(waited)
    /\ warnings' = Append(warnings, handle_i)
    /\ waitLog' = Append(waitLog, [handle |-> handle_i, expired |-> TRUE])
    /\ waited' = 0
    /\ handle_i' = handle_i + 1
    /\ drain_pc' = "next"
    /\ UNCHANGED <<handles, drain_result, notDrainVars>>

\* the for loop over the handles is over
DrainLoopEnd ==
    /\ drain_pc = "next"
    /\ handle_i > Len(handles)
    /\ drain_pc' = "return"
    /\ UNCHANGED <<handles, handle_i, waited, warnings, drain_result,
                   waitLog, notDrainVars>>

\* `Ok((total_bytes, pending_commands))`
DrainReturn ==
    /\ drain_pc = "return"
    /\ drain_result' = run_result
    /\ drain_pc' = "done"
    /\ UNCHANGED <<handles, handle_i, waited, warnings, waitLog,
                   notDrainVars>>

\* the steps of run itself and of its timer
DrainStep ==
    \/ DrainNothingToWaitFor
    \/ DrainBegin
    \/ DrainSkipFinished
    \/ DrainWait
    \/ DrainTick
    \/ DrainJoined
    \/ DrainTimedOut
    \/ DrainLoopEnd
    \/ DrainReturn

NextDrain ==
    \/ HookEnds
    \/ DrainNothingToWaitFor
    \/ DrainBegin
    \/ DrainSkipFinished
    \/ DrainWait
    \/ DrainTick
    \/ DrainJoined
    \/ DrainTimedOut
    \/ DrainLoopEnd
    \/ DrainReturn

\* the runtime keeps polling run and its timer fires; a hook task is under
\* no obligation to end
SpecDrain == InitDrain /\ [][NextDrain]_vars /\ WF_vars(DrainStep)

\* the handles whose timeout ran out, in the order of the waits
ExpiredHandles ==
    LET log == SelectSeq(waitLog, LAMBDA w : w.expired)
    IN  [k \in 1..Len(log) |-> log[k].handle]

\* C19: a handle is waited on at most once and never for more than 60
\* seconds; a handle is given up, with a warning, exactly when its 60
\* seconds ran out while its task was still running, and the task is left
\* as it is; the wait always comes to an end, and run then returns Ok
\* whatever the tasks did.
C19_HookWaitIsBoundedAndNeverFatal ==
    /\ [](/\ waited <= HookWaitSecs
          /\ \A k, l \in 1..Len(waitLog) :
                 waitLog[k].handle = waitLog[l].handle => k = l
          /\ warnings = ExpiredHandles
          /\ drain_result # "Err"
          /\ drain_pc = "done" => drain_result = "Ok")
    /\ [][warnings' # warnings =>
              /\ waited = HookWaitSecs
              /\ handles[handle_i] = "running"
              /\ handles' = handles
              /\ warnings' = Append(warnings, handle_i)]_vars
    /\ <>(drain_pc = "done")

\* run returned Ok although the first task never ended and was given up
\* after 60 seconds and the second one failed while it was waited for
C19_Witness ==
    /\ drain_pc = "done"
    /\ drain_result = "Ok"
    /\ Len(handles) = 2
    /\ handles[1] = "running"
    /\ handles[2] = "exited_failed"
    /\ warnings = <<1>>
    /\ Len(waitLog) = 2

(***************************************************************************)
(* Properties of shutdown, end of stream and rotation in a run.            *)
(***************************************************************************)
\* the payload of the fetch logged last
LastPayload(log) ==
    [uri |-> log[Len(log)].uri, size |-> log[Len(log)].size]

\* C21: setting the flag cancels nothing: while run awaits a fetch the
\* request stays in flight, and it ends only with its own outcome (a
\* logged poll or a logged segment fetch); the payload of a segment fetch
\* that succeeds under the flag is written and the rotation check made in
\* the step that ends it; the loop stops for shutdown only at its top.
C21_ShutdownNeverCancelsAFetch ==
    /\ []((shutdown /\ Fetching) => in_flight # {})
    /\ [][(shutdown' /\ in_flight # {} /\ in_flight' = {}) =>
              \/ Len(pollLog') = Len(pollLog) + 1
              \/ Len(fetchLog') = Len(fetchLog) + 1]_vars
    /\ [][(shutdown /\ pc = "segment_fetch"
               /\ Len(fetchLog') = Len(fetchLog) + 1
               /\ fetchLog'[Len(fetchLog')].ok
               /\ stopCause' # "write_error") =>
              /\ Flatten(files') =
                     Append(Flatten(files), LastPayload(fetchLog'))
              /\ total_bytes_written' =
                     total_bytes_written + fetchLog'[Len(fetchLog')].size
              /\ segment_index' =
                     IF rotation_due THEN segment_index + 1
                     ELSE segment_index]_vars
    /\ [][(stopCause # "shutdown" /\ stopCause' = "shutdown") =>
              (pc = "top" /\ shutdown /\ in_flight = {})]_vars

\* the flag is set while the fetch of the second segment of the run is in
\* flight, after time has passed in that fetch
C21_Witness ==
    /\ shutdown
    /\ pc = "segment_fetch"
    /\ in_flight = {request(join(Head(segments)))}
    /\ Len(fetchLog) = 1
    /\ now > segment_start

\* the playlist parsed last signalled the end of the stream and its for
\* loop has been left
EndListCycleOver ==
    /\ pollLog # <<>>
    /\ pollLog[Len(pollLog)] = "ok"
    /\ end_list
    /\ pc \notin {"segments", "segment_fetch"}

\* C22: once the for loop over a playlist that signals the end of the
\* stream has been left, every URI of the playlist has been handled (unless
\* the shutdown flag cut the for loop short), the file is finalized, its
\* hook dispatched when a template is set, and the loop has stopped without
\* a sleep or a further poll.
C22_EndOfStreamFinalizesAndStops ==
    EndListCycleOver =>
        /\ ~shutdown => Range(polled) \subseteq seen_segments
        /\ finalizeCalls = 1
        /\ on_segment => Dispatched(current_path) = 1
        /\ pc \in {"after_loop", "drain", "returned"}

\* C28: the rotation index moves only in the step that appends the payload
\* of a successful segment fetch, by one, and only when the window has been
\* open for segment_secs at least: never after a failed fetch, a URI
\* skipped, a failed poll or in the sleep, however long the window has
\* been open.
C28_RotationOnlyAfterSuccessfulAppend ==
    [][segment_index' # segment_index =>
           /\ pc = "segment_fetch"
           /\ Len(fetchLog') = Len(fetchLog) + 1
           /\ fetchLog'[Len(fetchLog')].ok
           /\ Flatten(files') = Append(Flatten(files), LastPayload(fetchLog'))
           /\ now - segment_start >= segment_secs
           /\ segment_index' = segment_index + 1]_vars

\* after one rotation the window has been open for segment_secs again,
\* the fetch made last failed and the loop sleeps: the index is still 1
C28_Witness ==
    /\ segment_index = 1
    /\ now - segment_start >= segment_secs
    /\ Len(fetchLog) >= 2
    /\ ~fetchLog[Len(fetchLog)].ok
    /\ pc = "sleep"

\* two different raw URIs that resolve to the same absolute URL
SameResource(u, v) == u # v /\ join(u) # JoinError /\ join(u) = join(v)

\* C29: the dedup key is the raw URI string: no raw string is fetched
\* twice, a raw string is fetched although another raw string with the
\* same absolute URL has been fetched before, so that after a cycle that
\* ran to its end both of two such strings polled have been fetched, and
\* the byte total counts the payload of every fetch.
C29_DedupKeysOnRawUri ==
    /\ NoDuplicates(FetchedUris)
    /\ pc = "segment_fetch" => Head(segments) \notin Range(FetchedUris)
    /\ (~InForLoop /\ ~shutdown /\ result # "Err") =>
           \A u \in Range(polled), v \in Range(polled) :
               SameResource(u, v) => {u, v} \subseteq Range(FetchedUris)
    /\ result # "Err" => total_bytes_written = SumSizes(OkFetches)

\* "seg1.ts" and "./seg1.ts" have both been fetched with a payload of one
\* byte, the total is 2, and the playlist of a later poll names "seg1.ts"
\* again
C29_Witness ==
    /\ pc = "segments"
    /\ Len(pollLog) >= 2
    /\ OkPayloads = <<[uri |-> "seg1.ts", size |-> 1],
                      [uri |-> "./seg1.ts", size |-> 1]>>
    /\ total_bytes_written = 2
    /\ segments # <<>>
    /\ Head(segments) = "seg1.ts"

\* the payloads appended to the file of a path
PayloadsOf(path) == files[path + 1]

\* C32 as stated: every path dispatched to the hook names a file to which
\* a payload at least was appended.
C32_NoHookForAnEmptyFile ==
    \A i \in 1..Len(pending_commands) :
        /\ pending_commands[i] + 1 \in 1..Len(files)
        /\ PayloadsOf(pending_commands[i]) # <<>>

\* C32, amended: every path dispatched by a rotation names a file to which
\* a payload at least was appended; the only path dispatched for a file
\* without payload is the one finalize returns, the file open at the end
\* of the run.
C32_OnlyFinalizeDispatchesAnEmptyFile ==
    \A i \in 1..Len(pending_commands) :
        /\ pending_commands[i] + 1 \in 1..Len(files)
        /\ PayloadsOf(pending_commands[i]) = <<>> =>
               /\ finalizeCalls = 1
               /\ i = Len(pending_commands)
               /\ pending_commands[i] = segment_index
               /\ pending_commands[i] + 1 = Len(files)

\* the last write of the run made the rotation to the file of index 1;
\* finalize dispatched that file, which holds nothing, after the file of
\* index 0, which holds a payload
C32_Witness ==
    /\ result = "Ok"
    /\ pending_commands = <<0, 1>>
    /\ PayloadsOf(0) # <<>>
    /\ PayloadsOf(1) = <<>>
    /\ finalizeCalls = 1

(***************************************************************************)
(* select_best_variant (src/src/playlist.rs), applied to master playlists  *)
(* drawn from a small set of variants.  An Option is a sequence of length  *)
(* 0 or 1.  Frame rates are f64 in the code: the model has the numbers 0,  *)
(* 30 and 60 and the value NaN, which compares with nothing.               *)
(***************************************************************************)
None == <<>>
Some(x) == <<x>>

\* f64::NAN ("NaN".parse::<f64>() is Ok(NAN))
NaN == -1

\* the variants a master playlist may list: [uri, resolution, frame_rate,
\* name], name being the NAME entry of other_attributes
Variants ==
    { [uri |-> "low.m3u8", resolution |-> Some(<<640, 360>>),
       frame_rate |-> Some(30), name |-> None],
      [uri |-> "hd30.m3u8", resolution |-> Some(<<1920, 1080>>),
       frame_rate |-> Some(30), name |-> None],
      [uri |-> "hd60.m3u8", resolution |-> Some(<<1920, 1080>>),
       frame_rate |-> Some(60), name |-> None],
      [uri |-> "hdname.m3u8", resolution |-> Some(<<1920, 1080>>),
       frame_rate |-> None, name |-> Some("HD FPS:60.0 main")],
      [uri |-> "hdnan.m3u8", resolution |-> Some(<<1920, 1080>>),
       frame_rate |-> Some(0), name |-> Some("FPS:NaN")],
      [uri |-> "audio.m3u8", resolution |-> None,
       frame_rate |-> None, name |-> Some("audio only")],
      [uri |-> "http://[", resolution |-> Some(<<1920, 1080>>),
       frame_rate |-> Some(30), name |-> None] }

\* parse_fps_from_string on the NAME values of the model
parse_fps_from_string(str) ==
    CASE str = "FPS:NaN"          -> Some(NaN)
      [] str = "HD FPS:60.0 main" -> Some(60)
      [] OTHER                    -> None

\* `fps > 0.0`
is_positive(fps) == fps # NaN /\ fps > 0

\* extract_frame_rate
extract_frame_rate(variant) ==
    IF variant.frame_rate # None /\ is_positive(variant.frame_rate[1])
    THEN variant.frame_rate[1]
    ELSE IF variant.name # None
              /\ parse_fps_from_string(variant.name[1]) # None
         THEN parse_fps_from_string(variant.name[1])[1]
         ELSE 0

\* `resolution.map(|r| r.width * r.height).unwrap_or(0)`
area(variant) ==
    IF variant.resolution = None THEN 0
    ELSE variant.resolution[1][1] * variant.resolution[1][2]

\* Ord::cmp on integers
cmp(a, b) == IF a < b THEN "Less" ELSE IF a > b THEN "Greater" ELSE "Equal"

\* f64::partial_cmp: None when an operand is NaN
partial_cmp(a, b) == IF a = NaN \/ b = NaN THEN None ELSE Some(cmp(a, b))

\* Option::unwrap_or
unwrap_or(opt, default) == IF opt = None THEN default ELSE opt[1]

\* the closure given to max_by
compare(a, b) ==
    IF cmp(area(a), area(b)) # "Equal"
    THEN cmp(area(a), area(b))
    ELSE unwrap_or(partial_cmp(extract_frame_rate(a),
                               extract_frame_rate(b)), "Equal")

\* Iterator::max_by: a fold that keeps the element held unless the next
\* one is not smaller (the last of several maxima wins)
RECURSIVE max_by_fold(_, _)
max_by_fold(held, rest) ==
    IF rest = <<>> THEN held
    ELSE max_by_fold(IF compare(held, Head(rest)) = "Greater"
                     THEN held ELSE Head(rest),
                     Tail(rest))

max_by(variants) ==
    IF variants = <<>> THEN None
    ELSE Some(max_by_fold(Head(variants), Tail(variants)))

join_base_lenient(uri) == "http://h/" \o uri

\* Url::join(base_url, uri) for base_url = http://h/master.m3u8
join_base(uri) ==
    IF uri = "http://[" THEN JoinError ELSE "http://h/" \o uri

\* select_best_variant
select_best_variant(variants) ==
    IF max_by(variants) = None THEN None
    ELSE IF join_base(max_by(variants)[1].uri) = JoinError THEN None
         ELSE Some(join_base(max_by(variants)[1].uri))

InitVariant ==
    /\ IngestIdle
    /\ FormatIdle
    /\ ExitIdle
    /\ MainIdle
    /\ HooksIdle
    /\ SignalIdle
    /\ master \in SeqsUpTo(Variants, MaxVariants)
    /\ v_pc = "call"
    /\ variant_url = None

\* the call of select_best_variant in resolve_media_url
SelectBestVariant ==
    /\ v_pc = "call"
    /\ variant_url' = select_best_variant(master)
    /\ v_pc' = "done"
    /\ UNCHANGED <<master, ingestVars, formatVars, exitVars, mainVars,
                   hookVars, signalVars>>

NextVariant == SelectBestVariant

SpecVariant == InitVariant /\ [][NextVariant]_vars

(***************************************************************************)
(* Properties of select_best_variant.                                      *)
(***************************************************************************)
\* the pair (area, frame rate) of `a` is greater than the pair of `b`
PairGreater(a, b) ==
    \/ area(a) > area(b)
    \/ /\ area(a) = area(b)
       /\ extract_frame_rate(a) # NaN
       /\ extract_frame_rate(b) # NaN
       /\ extract_frame_rate(a) > extract_frame_rate(b)

\* the variants of the example: 640x360 at 30, 1920x1080 at 30 and at 60
ExampleUris == {"low.m3u8", "hd30.m3u8", "hd60.m3u8"}

\* C23: a URL returned by select_best_variant is the URL of a variant of
\* the master playlist that no other variant exceeds in (area, frame
\* rate), areas first; the three variants of the example give the
\* 1920x1080 variant at 60 fps in each of their six orders.
C23_SelectsLexicographicMaximum ==
    (v_pc = "done" /\ variant_url # None) =>
        /\ \E i \in 1..Len(master) :
               /\ join_base(master[i].uri) = variant_url[1]
               /\ \A j \in 1..Len(master) :
                      ~PairGreater(master[j], master[i])
        /\ (Len(master) = 3
                /\ {master[i].uri : i \in 1..3} = ExampleUris)
               => variant_url = Some("http://h/hd60.m3u8")

\* the URI cannot be resolved against the base URL
Unresolvable(uri) == uri = "http://["

\* C24 as stated: None is returned only for a master playlist without
\* variants.
C24_NoneOnlyWithoutVariants ==
    v_pc = "done" => (variant_url = None <=> master = <<>>)

\* C24, amended: None is returned when the master playlist has no variant
\* and when the URI of the variant selected cannot be resolved against the
\* base URL, and in no other case; so a master playlist with a variant
\* gives a URL whenever the URIs of its variants resolve.
C24_NoneOnlyWithoutVariantsOrUnresolvableUri ==
    v_pc = "done" =>
        /\ master = <<>> => variant_url = None
        /\ master # <<>> =>
               (variant_url = None <=> Unresolvable(max_by(master)[1].uri))
        /\ (master # <<>>
                /\ \A i \in 1..Len(master) : ~Unresolvable(master[i].uri))
               => variant_url # None

\* None is returned for a master playlist of two variants of the same
\* area and frame rate, of which the first resolves and the second, that
\* max_by selects, does not
C24_Witness ==
    /\ v_pc = "done"
    /\ Len(master) = 2
    /\ master[1].uri = "hd30.m3u8"
    /\ master[2].uri = "http://["
    /\ variant_url = None

(***************************************************************************)
(* The choice of the handler in main (src/src/main.rs): the media playlist *)
(* is fetched once, is_fmp4_playlist classifies it, and the match sends    *)
(* the stream to ffmpeg or to the native ingestion loop.                   *)
(***************************************************************************)
\* the longest media playlist classified
MaxMapSegs == 4

\* a segment: the EXT-X-MAP it declares, if any
MediaSegments == {[map |-> None], [map |-> Some("init.mp4")]}

\* what the fetch and the parse in detect_format can give: a media
\* playlist, a master playlist, bytes that do not parse, a failed fetch
InitialMedia ==
    {[kind |-> "MediaPlaylist", segments |-> segs] :
         segs \in SeqsUpTo(MediaSegments, MaxMapSegs)}
    \cup {[kind |-> k, segments |-> <<>>] :
              k \in {"MasterPlaylist", "ParseError", "FetchError"}}

is_fmp4_playlist_all(playlist) ==
    \A i \in 1..Len(playlist.segments) : playlist.segments[i].map # None

\* is_fmp4_playlist: playlist.segments.iter().any(|s| s.map.is_some())
is_fmp4_playlist(playlist) ==
    \E i \in 1..Len(playlist.segments) : playlist.segments[i].map # None

InitFormat ==
    /\ IngestIdle
    /\ VariantIdle
    /\ ExitIdle
    /\ MainIdle
    /\ HooksIdle
    /\ SignalIdle
    /\ ffmpeg \in BOOLEAN
    /\ direct \in BOOLEAN
    /\ initial_media \in InitialMedia
    /\ d_pc = "main"
    /\ format = "none"
    /\ handler = "none"

\* main: --ffmpeg and --direct skip the detection
ForceFfmpeg ==
    /\ d_pc = "main"
    /\ ffmpeg \/ direct
    /\ handler' = "handle_fmp4_stream"
    /\ d_pc' = "handled"
    /\ UNCHANGED <<ffmpeg, direct, initial_media, format, ingestVars,
                   variantVars, exitVars, mainVars, hookVars, signalVars>>

\* detect_format: Err when the fetch fails or the bytes are not a media
\* playlist, else the format is_fmp4_playlist tells
DetectFormat ==
    /\ d_pc = "main"
    /\ ~(ffmpeg \/ direct)
    /\ IF initial_media.kind # "MediaPlaylist"
       THEN /\ d_pc' = "failed"
            /\ UNCHANGED format
       ELSE /\ format' = IF is_fmp4_playlist(initial_media) THEN "FMP4"
                         ELSE "TS"
            /\ d_pc' = "match"
    /\ UNCHANGED <<ffmpeg, direct, initial_media, handler, ingestVars,
                   variantVars, exitVars, mainVars, hookVars, signalVars>>

\* main: match format
MatchFormat ==
    /\ d_pc = "match"
    /\ handler' = IF format = "FMP4" THEN "handle_fmp4_stream"
                  ELSE "handle_ts_stream"
    /\ d_pc' = "handled"
    /\ UNCHANGED <<ffmpeg, direct, initial_media, format, ingestVars,
                   variantVars, exitVars, mainVars, hookVars, signalVars>>

NextFormat == ForceFfmpeg \/ DetectFormat \/ MatchFormat

SpecFormat == InitFormat /\ [][NextFormat]_vars

(***************************************************************************)
(* Properties of the choice of the handler.                                *)
(***************************************************************************)
\* the segments of the playlist that declare an initialization map
WithMap(playlist) ==
    {i \in 1..Len(playlist.segments) : playlist.segments[i].map # None}

\* C25: the playlist is classified fragmented exactly when one of its
\* segments at least declares an initialization map: fragmented when every
\* segment of a playlist that has segments declares one, plain-segmented
\* when none does, the empty playlist included; and the native ingestion
\* loop is called only for a playlist classified plain-segmented, without
\* --ffmpeg and --direct.
C25_FragmentedIffSomeSegmentHasMap ==
    /\ d_pc \in {"match", "handled"} /\ format # "none" =>
           /\ format = "FMP4" <=> Cardinality(WithMap(initial_media)) >= 1
           /\ (Len(initial_media.segments) >= 1
                   /\ Cardinality(WithMap(initial_media))
                          = Len(initial_media.segments))
                  => format = "FMP4"
           /\ WithMap(initial_media) = {} => format = "TS"
    /\ handler = "handle_ts_stream" =>
           /\ format = "TS"
           /\ initial_media.kind = "MediaPlaylist"
           /\ WithMap(initial_media) = {}
           /\ ~ffmpeg /\ ~direct
    /\ (d_pc = "handled" /\ format = "TS") => handler = "handle_ts_stream"

\* a playlist of which the second segment only declares a map has been
\* classified fragmented and given to ffmpeg
C25_Witness ==
    /\ d_pc = "handled"
    /\ Len(initial_media.segments) = 2
    /\ WithMap(initial_media) = {2}
    /\ format = "FMP4"
    /\ handler = "handle_fmp4_stream"

(***************************************************************************)
(* run_exit_command and format_bytes (src/src/commands.rs).  A string is   *)
(* the sequence of its characters, so that str::replace, the formatting of *)
(* the numbers and Path::components are computed character by character.   *)
(***************************************************************************)
KB == 1024
MB == KB * 1024
GB == MB * 1024

Digits == <<"0", "1", "2", "3", "4", "5", "6", "7", "8", "9">>

\* u64::to_string and "{}" of an integer
RECURSIVE to_string(_)
to_string(n) ==
    IF n < 10 THEN <<Digits[n + 1]>>
    ELSE to_string(n \div 10) \o <<Digits[(n % 10) + 1]>>

\* "{:02}" of an integer
pad2(n) == IF n < 10 THEN <<"0">> \o to_string(n) ELSE to_string(n)

\* str::replace: every match of `from`, found from left to right and not
\* overlapping, gives way to `to`; the text put in is not searched again
RECURSIVE replace(_, _, _)
replace(str, from, to) ==
    IF Len(str) < Len(from) THEN str
    ELSE IF SubSeq(str, 1, Len(from)) = from
         THEN to \o replace(SubSeq(str, Len(from) + 1, Len(str)), from, to)
         ELSE <<Head(str)>> \o replace(Tail(str), from, to)

\* bytes * 100 / unit, for unit = 1024 * u1, is (A + B / 1024) / u1: the
\* quotient is exact in f64 (a division by a power of two), and the parts
\* keep the products within the integers of the model checker
ScaledA(bytes, unit) ==
    ((bytes % unit) \div 1024) * 100 + (((bytes % unit) % 1024) * 100) \div 1024

ScaledB(bytes, unit) == (((bytes % unit) % 1024) * 100) % 1024

\* the hundredths of bytes / unit, rounded down
hundredths_floor(bytes, unit) ==
    (bytes \div unit) * 100 + ScaledA(bytes, unit) \div (unit \div 1024)

\* what the rounding down left: "below", "half" or "above" half a hundredth
hundredths_rest(bytes, unit) ==
    LET u1 == unit \div 1024
        r  == ScaledA(bytes, unit) % u1
        B  == ScaledB(bytes, unit)
    IN  IF u1 = 1
        THEN IF 2 * B > 1024 THEN "above"
             ELSE IF 2 * B = 1024 THEN "half" ELSE "below"
        ELSE IF r > u1 \div 2 \/ (r = u1 \div 2 /\ B > 0) THEN "above"
             ELSE IF r = u1 \div 2 /\ B = 0 THEN "half" ELSE "below"

\* the hundredths "{:.2}" prints: to the nearest, a tie to the even digit
hundredths(bytes, unit) ==
    LET q0 == hundredths_floor(bytes, unit)
        rest == hundredths_rest(bytes, unit)
    IN  IF rest = "above" \/ (rest = "half" /\ q0 % 2 = 1) THEN q0 + 1
        ELSE q0

\* the text of a number of hundredths with two decimals
fixed2(q) == to_string(q \div 100) \o <<".">> \o pad2(q % 100)

\* format_bytes
format_bytes(bytes) ==
    IF bytes >= GB
    THEN fixed2(hundredths(bytes, GB)) \o <<" ", "G", "B">>
    ELSE IF bytes >= MB
         THEN fixed2(hundredths(bytes, MB)) \o <<" ", "M", "B">>
         ELSE IF bytes >= KB
              THEN fixed2(hundredths(bytes, KB)) \o <<" ", "K", "B">>
              ELSE to_string(bytes) \o <<" ", "B">>

\* the pieces of a path between its separators
RECURSIVE split(_, _)
split(str, piece) ==
    IF str = <<>> THEN <<piece>>
    ELSE IF Head(str) = "/" THEN <<piece>> \o split(Tail(str), <<>>)
         ELSE split(Tail(str), Append(piece, Head(str)))

\* Path::components, each as its as_os_str: the root directory if the path
\* starts with a separator, a leading ".", and the pieces that are neither
\* empty nor "."
components(path) ==
    LET pieces == split(path, <<>>)
        root   == IF path # <<>> /\ Head(path) = "/" THEN << <<"/">> >>
                  ELSE <<>>
        first  == IF pieces[1] = <<>> THEN <<>> ELSE <<pieces[1]>>
        rest   == SelectSeq(Tail(pieces),
                            LAMBDA piece : piece # <<>> /\ piece # <<".">>)
    IN  root \o first \o rest

\* dir_str: the last two path components
dir_str(path) ==
    LET comps == components(path)
        len   == Len(comps)
    IN  IF len >= 2 THEN comps[len - 1] \o <<"/">> \o comps[len]
        ELSE IF len = 1 THEN comps[1]
             ELSE <<".">>

\* duration_str
duration_str(secs) ==
    LET hours   == secs \div 3600
        minutes == (secs % 3600) \div 60
        seconds == secs % 60
    IN  IF hours > 0
        THEN to_string(hours) \o <<":">> \o pad2(minutes) \o <<":">>
                 \o pad2(seconds)
        ELSE to_string(minutes) \o <<":">> \o pad2(seconds)

\* run_exit_command: the command line handed to sh -c
run_exit_command(template, secs, bytes, path) ==
    replace(
        replace(
            replace(
                replace(
                    replace(template, <<"%", "d">>, dir_str(path)),
                    <<"%", "t">>, duration_str(secs)),
                <<"%", "s">>, format_bytes(bytes)),
            <<"%", "b">>, to_string(bytes)),
        <<"%", "m">>, to_string((bytes \div 1024) \div 1024))

\* the placeholders, and the literal text a template is written with
Placeholders ==
    {<<"%", "d">>, <<"%", "t">>, <<"%", "s">>, <<"%", "b">>, <<"%", "m">>}

Space == <<" ">>

Echo == <<"e", "c", "h", "o", " ">>

\* the templates rendered, each as the sequence of its pieces
Templates ==
    {<< <<"%", "d">>, Space, <<"%", "t">>, Space, <<"%", "s">> >>,
     << <<"%", "d">> >>,
     << <<"%", "t">> >>,
     << <<"%", "s">> >>,
     << <<"%", "b">> >>,
     << <<"%", "m">> >>,
     << Echo, <<"%", "m">>, Space, <<"%", "b">> >>,
     << <<"%", "s">>, <<"%", "d">> >>,
     << Echo, <<"%", "t">>, <<"%", "t">> >>,
     << Echo >>,
     << >>}

\* the elapsed times rendered
Durations == {0, 59, 60, 3599, 3600, 3725, 90061}

\* the byte totals rendered
ByteTotals ==
    {0, 1023, 1024, 1152, 1048575, 1048576, 1572864, 1073741823,
     1073741824, 1610612736}

\* the output directories rendered: "", ".", "show1", "rec/show1",
\* "/v/rec/show1", "/show1", "/", "./rec//show1/", "rec/%b"
OutputDirs ==
    {<<>>,
     <<".">>,
     <<"s", "h", "o", "w", "1">>,
     <<"r", "e", "c", "/", "s", "h", "o", "w", "1">>,
     <<"/", "v", "/", "r", "e", "c", "/", "s", "h", "o", "w", "1">>,
     <<"/", "s", "h", "o", "w", "1">>,
     <<"/">>,
     <<".", "/", "r", "e", "c", "/", "/", "s", "h", "o", "w", "1", "/">>,
     <<"r", "e", "c", "/", "%", "b">>}

InitExit ==
    /\ IngestIdle
    /\ VariantIdle
    /\ FormatIdle
    /\ MainIdle
    /\ HooksIdle
    /\ SignalIdle
    /\ cmd_template \in Templates
    /\ duration_secs \in Durations
    /\ total_bytes \in ByteTotals
    /\ output_dir \in OutputDirs
    /\ e_pc = "call"
    /\ cmd = <<>>
    /\ exit_outcome = "none"

\* the call of run_exit_command: the command is rendered and run with
\* sh -c; whatever the shell gives is only reported
RunExitCommand ==
    /\ e_pc = "call"
    /\ cmd' = run_exit_command(Flatten(cmd_template), duration_secs,
                               total_bytes, output_dir)
    /\ \E outcome \in {"success", "failure", "not_run"} :
           exit_outcome' = outcome
    /\ e_pc' = "done"
    /\ UNCHANGED <<cmd_template, duration_secs, total_bytes, output_dir,
                   ingestVars, variantVars, formatVars, mainVars,
                   hookVars, signalVars>>

NextExit == RunExitCommand

SpecExit == InitExit /\ [][NextExit]_vars

(***************************************************************************)
(* Properties of run_exit_command.                                         *)
(***************************************************************************)
\* the texts of an elapsed time: H:MM:SS from one hour on, M:SS below
TimeTexts(secs) ==
    UNION {{IF secs >= 3600
            THEN to_string(((secs - sec) \div 60 - m) \div 60) \o <<":">>
                     \o pad2(m) \o <<":">> \o pad2(sec)
            ELSE to_string(m) \o <<":">> \o pad2(sec) :
                m \in {y \in 0..59 : ((secs - sec) \div 60 - y) % 60 = 0}} :
               sec \in {x \in 0..59 : (secs - x) % 60 = 0}}

\* the largest of the units that the byte total reaches, 1 for bytes
UnitReached(bytes) ==
    CHOOSE unit \in {1, KB, MB, GB} :
        /\ bytes >= unit \/ unit = 1
        /\ \A other \in {KB, MB, GB} : bytes >= other => other <= unit

UnitName(unit) ==
    CASE unit = GB -> <<"G", "B">>
      [] unit = MB -> <<"M", "B">>
      [] unit = KB -> <<"K", "B">>
      [] OTHER -> <<"B">>

\* the texts of a size: the byte total in the unit reached, to the
\* nearest hundredth (either neighbour on a tie) with two decimals; a
\* number of bytes is whole and has none
SizeTexts(bytes) ==
    LET unit == UnitReached(bytes)
    IN  IF unit = 1 THEN {to_string(bytes) \o <<" ">> \o UnitName(unit)}
        ELSE {fixed2(q) \o <<" ">> \o UnitName(unit) :
                  q \in {q \in {hundredths_floor(bytes, unit),
                                hundredths_floor(bytes, unit) + 1} :
                             \/ hundredths_rest(bytes, unit) = "half"
                             \/ /\ hundredths_rest(bytes, unit) = "below"
                                /\ q = hundredths_floor(bytes, unit)
                             \/ /\ hundredths_rest(bytes, unit) = "above"
                                /\ q = hundredths_floor(bytes, unit) + 1}}

\* the last two components of a path, the only one, or "."
LastComponents(path) ==
    LET comps == components(path)
    IN  CASE Len(comps) = 0 -> <<".">>
          [] Len(comps) = 1 -> comps[1]
          [] OTHER -> comps[Len(comps) - 1] \o <<"/">> \o comps[Len(comps)]

\* a piece of the template rendered: the text of its placeholder, or the
\* piece itself
Rendered(piece, texts) ==
    CASE piece = <<"%", "d">> -> texts.d
      [] piece = <<"%", "t">> -> texts.t
      [] piece = <<"%", "s">> -> texts.s
      [] piece = <<"%", "b">> -> texts.b
      [] piece = <<"%", "m">> -> texts.m
      [] OTHER -> piece

\* C26: the command run is the template with %d rendered as the last two
\* components of the output directory (one if it has only one, "." if
\* none), %t as H:MM:SS from 3600 s on and M:SS below, %s as the size in
\* the largest unit of 1024 reached with two decimals, %b as the byte
\* count and %m as the bytes divided by 1048576, rounded down; "%d %t %s"
\* with 3725 s, 1572864 bytes and a directory ending in rec/show1 gives
\* "rec/show1 1:02:05 1.50 MB".
C26_ExitCommandRendersPlaceholders ==
    e_pc = "done" =>
        /\ \E t \in TimeTexts(duration_secs), size \in SizeTexts(total_bytes) :
               cmd = Flatten([i \in 1..Len(cmd_template) |->
                                 Rendered(cmd_template[i],
                                          [d |-> LastComponents(output_dir),
                                           t |-> t,
                                           s |-> size,
                                           b |-> to_string(total_bytes),
                                           m |-> to_string(total_bytes
                                                             \div 1048576)])])
        /\ (/\ cmd_template = << <<"%", "d">>, Space, <<"%", "t">>, Space,
                                 <<"%", "s">> >>
            /\ duration_secs = 3725
            /\ total_bytes = 1572864
            /\ output_dir = <<"/", "v", "/", "r", "e", "c", "/", "s", "h", "o", "w", "1">>)
               => cmd = <<"r", "e", "c", "/", "s", "h", "o", "w", "1", " ", "1", ":", "0", "2", ":", "0", "5", " ", "1", ".", "5", "0", " ", "M", "B">>

(***************************************************************************)
(* main around the native ingestion loop (src/src/main.rs): it awaits      *)
(* handle_ts_stream, that is TsDownloader::run, leaves with the error if   *)
(* there is one, and runs the exit hook otherwise.                         *)
(***************************************************************************)
InitMain ==
    /\ RunInit
    /\ FetchIdle
    /\ DirIdle
    /\ DrainIdle
    /\ VariantIdle
    /\ FormatIdle
    /\ ExitIdle
    /\ HooksIdle
    /\ SignalIdle
    /\ on_exit \in BOOLEAN
    /\ main_pc = "handle_ts_stream"
    /\ exit_calls = 0

\* the ingestion loop runs while main awaits handle_ts_stream
RunStep == main_pc = "handle_ts_stream" /\ Next

\* main after handle_ts_stream: `?` leaves with the error of run; else
\* run_exit_command is called, and waited for, if a template is configured
MainAfterRun ==
    /\ main_pc = "handle_ts_stream"
    /\ pc = "returned"
    /\ IF result = "Err"
       THEN /\ main_pc' = "failed"
            /\ UNCHANGED exit_calls
       ELSE /\ exit_calls' = IF on_exit THEN exit_calls + 1 ELSE exit_calls
            /\ main_pc' = "done"
    /\ UNCHANGED <<on_exit, ingestVars, variantVars, formatVars, exitVars,
                   hookVars, signalVars>>

NextMain == RunStep \/ MainAfterRun

SpecMain == InitMain /\ [][NextMain]_vars

(***************************************************************************)
(* Properties of main around the ingestion loop.                           *)
(***************************************************************************)
\* C27: with an exit-hook template configured the exit hook is called
\* exactly once, and only after the ingestion loop has stopped: never
\* while the loop polls or writes, after the last finalize and after the
\* wait for the hook tasks; so once main is over the hook has been called
\* once.
C27_ExitHookOnceAfterLoopStopped ==
    /\ exit_calls <= 1
    /\ exit_calls = 1 =>
           /\ on_exit
           /\ pc = "returned"
           /\ finalizeCalls = 1
           /\ in_flight = {}
    /\ (on_exit /\ main_pc \in {"done", "failed"}) => exit_calls = 1

(***************************************************************************)
(* The hook tasks beside the ingestion loop: run_segment_command_async     *)
(* (src/src/commands.rs) moves the template and the path into a blocking   *)
(* task and returns its handle at once; the task runs the command whenever *)
(* the runtime lets it, or hangs in it for ever.                           *)
(***************************************************************************)
\* the handles whose command has ended
EndedHandles == {done.handle : done \in hooks_done}

\* faulty variant: the task looks up the path of the open file
filepath_shared(handle) == current_path

\* the path the task owns: the one moved into its closure
filepath(handle) == pending_commands[handle]

\* run_segment_command in the task of a handle: the command ends
RunSegmentCommand ==
    /\ \E handle \in (1..Len(pending_commands)) \ EndedHandles :
           hooks_done' = hooks_done
                             \cup {[handle |-> handle, path |-> filepath(handle)]}
    /\ UNCHANGED <<ingestVars, variantVars, formatVars, exitVars, mainVars,
                   signalVars>>

\* a run with a hook template and no failure budget
InitHooks == Init /\ on_segment /\ max_failures = 0

NextHooks == Next \/ RunSegmentCommand

SpecHooks == InitHooks /\ [][NextHooks]_vars

(***************************************************************************)
(* Properties of the hook tasks.                                           *)
(***************************************************************************)
\* a step of run itself, the signal and the clock apart
LoopStep ==
    \/ ShutdownAtTop
    \/ StartPoll
    \/ PlaylistFetchError
    \/ PlaylistParseError
    \/ PlaylistParsed
    \/ SkipSeen
    \/ StartSegment
    \/ SegmentFetchError
    \/ SegmentWriteError
    \/ SegmentWritten
    \/ SegmentRotated
    \/ SegmentRotateError
    \/ EndOfStream
    \/ KeepPolling
    \/ Sleep
    \/ FinalizeAfterLoop

\* hook tasks whose command has not ended
RunningHooks == (1..Len(pending_commands)) \ EndedHandles

\* whatever hook tasks are running, run can take its next step as long
\* as the loop has not stopped
LoopNeverWaits ==
    (pc \in {"playlist_fetch", "segments", "segment_fetch", "sleep",
             "after_loop"}
         \/ (pc = "top" /\ (shutdown \/ Len(pollLog) < MaxPolls)))
        => ENABLED LoopStep

\* a task works on the path moved into it at its dispatch, the file
\* completed then, whatever the rotation index has become
HooksOwnTheirPath ==
    \A done \in hooks_done :
        /\ done.handle \in 1..Len(pending_commands)
        /\ done.path = pending_commands[done.handle]
        /\ done.path = done.handle - 1

\* C30: the loop never waits for a hook task before it has stopped:
\* polling, fetching, writing and rotating go on while any number of tasks
\* run or hang; a task works on its own copy of the path; a step of a task
\* changes nothing of the loop (seen_segments, the rotation index, the
\* byte counter and the rest), and a step of the loop ends no task.
C30_HooksDetachedFromLoop ==
    /\ [](LoopNeverWaits /\ HooksOwnTheirPath)
    /\ [][/\ hooks_done' # hooks_done => UNCHANGED runVars
          /\ runVars' # runVars => UNCHANGED hooks_done]_vars

\* two hook tasks are still running, none has ended, and the loop fetches
\* the playlist again
C30_Witness ==
    /\ Cardinality(RunningHooks) = 2
    /\ hooks_done = {}
    /\ pc = "playlist_fetch"

\* a step of run is a poll that failed
PollFails ==
    /\ Len(pollLog') = Len(pollLog) + 1
    /\ pollLog'[Len(pollLog')] = "failed"

\* C34: a poll that fails, by a fetch error or by a parse error, adds one to
\* consecutive_failures and leaves seen_segments, the contents of the output
\* files, segment_index, total_bytes_written and the dispatched hooks as
\* they were before it.
C34_FailedPollTouchesOnlyTheCounter ==
    [][PollFails =>
          /\ consecutive_failures' = consecutive_failures + 1
          /\ UNCHANGED <<seen_segments, files, segment_index,
                         total_bytes_written, pending_commands>>]_vars

C34_Witness ==
    /\ pollLog = <<"ok", "failed">>
    /\ consecutive_failures = 1
    /\ pc = "sleep"
    /\ seen_segments # {}
    /\ segment_index = 1
    /\ total_bytes_written > 0
    /\ pending_commands = <<0>>
    /\ PayloadsOf(0) # <<>>

(***************************************************************************)
(* The shutdown listener beside the ingestion loop: the task spawned by    *)
(* setup_shutdown_handler (src/src/main.rs) stores true in the flag when   *)
(* Ctrl+C arrives, at any moment of the loop.  run loads the flag at the   *)
(* top of the loop and before each segment, and starts its fetch some      *)
(* statements after the load; SetShutdown covers a store before a load or  *)
(* during a fetch, the two actions below the store between a load that     *)
(* gave false and the fetch that follows it.                               *)
(***************************************************************************)
\* top of the loop: the load gives false, Ctrl+C arrives, the playlist
\* fetch starts
StartPollAfterShutdown ==
    /\ pc = "top"
    /\ ~shutdown
    /\ Len(pollLog) < MaxPolls
    /\ shutdown' = TRUE
    /\ pc' = "playlist_fetch"
    /\ request_started(MediaUrl)
    /\ started_after_shutdown' = started_after_shutdown + 1
    /\ UNCHANGED <<cfgVars, seen_segments, consecutive_failures, outVars,
                   finalized, pending_commands, plVars, result, now,
                   fetchLog, polled, pollLog, finalizeCalls, stopCause,
                   diagnostic, fetchVars, dirVars, drainVars, variantVars,
                   formatVars, exitVars, mainVars, hookVars>>

\* for loop: the load gives false, Ctrl+C arrives, the segment fetch starts
StartSegmentAfterShutdown ==
    /\ pc = "segments"
    /\ ~for_loop_ends
    /\ ~already_seen(Head(segments))
    /\ join(Head(segments)) # JoinError
    /\ shutdown' = TRUE
    /\ seen_segments' = mark_seen(Head(segments))
    /\ pc' = "segment_fetch"
    /\ request_started(join(Head(segments)))
    /\ started_after_shutdown' = started_after_shutdown + 1
    /\ UNCHANGED <<cfgVars, consecutive_failures, outVars, finalized,
                   pending_commands, plVars, result, now, fetchLog, polled,
                   pollLog, finalizeCalls, stopCause, diagnostic, fetchVars,
                   dirVars, drainVars, variantVars, formatVars, exitVars,
                   mainVars, hookVars>>

\* a run without a hook template: no hook task stands beside the loop and
\* the listener
InitSignal == Init /\ ~on_segment

NextSignal == Next \/ StartPollAfterShutdown \/ StartSegmentAfterShutdown

SpecSignal == InitSignal /\ [][NextSignal]_vars

(***************************************************************************)
(* Properties of the loop under the shutdown listener.                     *)
(***************************************************************************)
\* a step of run starts a fetch
FetchStarts == in_flight' \ in_flight # {}

\* C33: however the listener's store falls among the loads of the loop, at
\* most one fetch, of the playlist or of a segment, is started after the
\* flag was set: the one whose load of the flag came just before the store.
\* No fetch at all starts from a state in which the flag is set already, so
\* none starts once the loop has seen the flag, neither a segment fetch nor
\* any fetch between the break of the for loop and finalize.
C33_AtMostOneFetchAfterShutdown ==
    /\ [](started_after_shutdown <= 1)
    /\ [][FetchStarts => ~shutdown]_vars

C33_Witness ==
    /\ started_after_shutdown = 1
    /\ shutdown
    /\ pc = "returned"
    /\ result = "Ok"
    /\ stopCause = "shutdown"
    /\ Len(fetchLog) = 2
    /\ finalizeCalls = 1

====
